---- MODULE Spec2Model ----
(***************************************************************************)
(* A model of win_utils.c (RHash): codepage conversion between narrow and  *)
(* wide strings, the exclusive file opener and probe, the path composer    *)
(* and the directory iterator built on FindFirstFileW / FindNextFileW.     *)
(*                                                                         *)
(* Narrow strings are sequences of bytes and wide strings sequences of     *)
(* UTF-16 code units; both are written as strings naming the value         *)
(* ("C3" is the byte 0xC3, "U00E9" the code unit U+00E9).  The native      *)
(* layer (codepage tables, file system, handles, last-error value) is the  *)
(* environment of the program and is modelled by what its documentation    *)
(* says it does.                                                           *)
(***************************************************************************)
EXTENDS Integers, Sequences, FiniteSets, TLC

(***************************************************************************)
(* Bounds of the model.                                                    *)
(***************************************************************************)
\* longest native directory listing
MaxEntries == 3
\* files the caller keeps open at the same time
MaxHeld == 1
\* handles other processes keep open at the same time
MaxLocks == 1
\* files that exist in the file system
MaxFiles == 2
\* End results of one iterator that are counted (later ones count as the last)
MaxEnds == 2
\* longest directory string and longest file name given to make_pathw
MaxDirLen == 2
MaxNameLen == 3
\* largest native error value of the contiguous block given to the translator
MaxNativeError == 240
\* longest narrow string and longest wide string given to the converters
MaxStrLen == 3
MaxWideLen == 2

(***************************************************************************)
(* Optional values: a C pointer that may be NULL.                          *)
(***************************************************************************)
Null == [null |-> TRUE]
Some(v) == [null |-> FALSE, v |-> v]

IsPrefix(p, s) == Len(p) <= Len(s) /\ SubSeq(s, 1, Len(p)) = p
Drop(s, n) == SubSeq(s, n + 1, Len(s))
Last(s) == s[Len(s)]

(***************************************************************************)
(* The native codepage tables.  Each entry pairs a byte sequence with the  *)
(* code unit it encodes.  The ANSI and OEM rows are those of code pages    *)
(* 1252 and 437; the byte 0x81 stands for a byte a legacy codepage rejects *)
(* (a lead byte without its trail byte on a double-byte system codepage).  *)
(***************************************************************************)
CP_ACP == 0
CP_OEMCP == 1
CP_UTF8 == 65001

AsciiTable ==
  { [b |-> <<"2E">>, w |-> "U002E"],   \* .
    [b |-> <<"2A">>, w |-> "U002A"],   \* *
    [b |-> <<"5C">>, w |-> "U005C"],   \* backslash
    [b |-> <<"2F">>, w |-> "U002F"],   \* /
    [b |-> <<"3F">>, w |-> "U003F"],   \* ?
    [b |-> <<"61">>, w |-> "U0061"],   \* a
    [b |-> <<"72">>, w |-> "U0072"],   \* r
    [b |-> <<"2B">>, w |-> "U002B"] }  \* +

Utf8Table ==
  AsciiTable \cup
  { [b |-> <<"C3", "A9">>, w |-> "U00E9"],
    [b |-> <<"C3", "83">>, w |-> "U00C3"],
    [b |-> <<"C2", "A9">>, w |-> "U00A9"],
    [b |-> <<"CE", "98">>, w |-> "U0398"],
    [b |-> <<"E2", "80", "9A">>, w |-> "U201A"],
    [b |-> <<"E2", "94", "9C">>, w |-> "U251C"],
    [b |-> <<"E2", "8C", "90">>, w |-> "U2310"],
    [b |-> <<"E4", "B8", "AD">>, w |-> "U4E2D"] }

AnsiTable ==
  AsciiTable \cup
  { [b |-> <<"C3">>, w |-> "U00C3"],
    [b |-> <<"A9">>, w |-> "U00A9"],
    [b |-> <<"E9">>, w |-> "U00E9"],
    [b |-> <<"82">>, w |-> "U201A"] }

OemTable ==
  AsciiTable \cup
  { [b |-> <<"C3">>, w |-> "U251C"],
    [b |-> <<"A9">>, w |-> "U2310"],
    [b |-> <<"E9">>, w |-> "U0398"],
    [b |-> <<"82">>, w |-> "U00E9"] }

CodepageTable(codepage) ==
  IF codepage = CP_UTF8 THEN Utf8Table
  ELSE IF codepage = CP_OEMCP THEN OemTable ELSE AnsiTable

\* A code unit the native converter refuses (an unpaired surrogate): the
\* size computation of WideCharToMultiByte returns 0 for a string holding it.
NativeRejects(wch) == wch = "UD800"

(***************************************************************************)
(* MultiByteToWideChar(codepage, MB_ERR_INVALID_CHARS, str, -1, ...):      *)
(* the wide string, or Null when a byte sequence is not valid in the       *)
(* codepage.                                                               *)
(***************************************************************************)
RECURSIVE MultiByteToWideChar(_, _)
MultiByteToWideChar(codepage, str) ==
  IF str = <<>> THEN Some(<<>>)
  ELSE LET m == {e \in CodepageTable(codepage) : IsPrefix(e.b, str)}
       IN  IF m = {} THEN Null
           ELSE LET e == CHOOSE x \in m : TRUE
                    rest == MultiByteToWideChar(codepage, Drop(str, Len(e.b)))
                IN  IF rest.null THEN Null ELSE Some(<<e.w>> \o rest.v)

(***************************************************************************)
(* WideCharToMultiByte(codepage, 0, wstr, -1, ...): the narrow string and  *)
(* whether the default character replaced an unmappable code unit (only    *)
(* legacy codepages substitute); Null when the size computation returns 0. *)
(***************************************************************************)
RECURSIVE WideCharToMultiByte(_, _)
WideCharToMultiByte(codepage, wstr) ==
  IF wstr = <<>> THEN Some([bytes |-> <<>>, usedDefault |-> FALSE])
  ELSE IF NativeRejects(Head(wstr)) THEN Null
  ELSE LET m == {e \in CodepageTable(codepage) : e.w = Head(wstr)}
           rest == WideCharToMultiByte(codepage, Tail(wstr))
       IN  IF rest.null THEN Null
           ELSE IF m = {}
                THEN Some([bytes |-> <<"3F">> \o rest.v.bytes, usedDefault |-> TRUE])
                ELSE Some([bytes |-> (CHOOSE x \in m : TRUE).b \o rest.v.bytes,
                           usedDefault |-> rest.v.usedDefault])

(***************************************************************************)
(* opt.flags: the encoding options, set once at start.                     *)
(***************************************************************************)
OPT_UTF8 == "OPT_UTF8"
OPT_OEM == "OPT_OEM"
EncodingModes == SUBSET {OPT_UTF8, OPT_OEM}

\* cstr_to_wchar: NULL when the size computation returns 0
cstr_to_wchar(str, codepage) == MultiByteToWideChar(codepage, str)

\* a mutant of c2w_codepage: the universal codepage is tried at the wrong attempt
c2w_codepage_Inverted(flags, try_no) ==
  LET is_utf == (try_no = (IF OPT_UTF8 \in flags THEN 1 ELSE 0))
  IN  IF is_utf THEN CP_UTF8 ELSE IF OPT_OEM \in flags THEN CP_OEMCP ELSE CP_ACP

\* c2w: the codepage of attempt try_no
c2w_codepage(flags, try_no) ==
  LET is_utf == (try_no = (IF OPT_UTF8 \in flags THEN 0 ELSE 1))
  IN  IF is_utf THEN CP_UTF8 ELSE IF OPT_OEM \in flags THEN CP_OEMCP ELSE CP_ACP

c2w(flags, str, try_no) == cstr_to_wchar(str, c2w_codepage(flags, try_no))

utf8_to_wchar(utf8_str) == cstr_to_wchar(utf8_str, CP_UTF8)

\* the codepage wchar_to_cstr uses for the sentinel -1
WIN_DEFAULT_ENCODING == -1

\* a mutant of DefaultCodepage: the OEM option is not looked at
DefaultCodepage_IgnoresOem(flags) ==
  IF OPT_UTF8 \in flags THEN CP_UTF8 ELSE CP_ACP

DefaultCodepage(flags) ==
  IF OPT_UTF8 \in flags THEN CP_UTF8
  ELSE IF OPT_OEM \in flags THEN CP_OEMCP ELSE CP_ACP

\* An int variable: never assigned, or holding a value.
Unassigned == [assigned |-> FALSE]
Assigned(n) == [assigned |-> TRUE, val |-> n]

\* a mutant of wchar_to_cstr: the flag is assigned on the failure path only
wchar_to_cstr_FlagOnFailureOnly(flags, wstr, codepage, wantFailed) ==
  LET cp == IF codepage = WIN_DEFAULT_ENCODING THEN DefaultCodepage(flags) ELSE codepage
      conv == WideCharToMultiByte(cp, wstr)
  IN  IF conv.null
      THEN [buf |-> Null, failed |-> IF wantFailed THEN Assigned(1) ELSE Unassigned]
      ELSE [buf |-> Some(conv.v.bytes), failed |-> Unassigned]

\* wchar_to_cstr(wstr, codepage, failed): buf is the malloc'ed narrow string
\* or Null; failed is the value left in *failed (wantFailed: failed != NULL).
wchar_to_cstr(flags, wstr, codepage, wantFailed) ==
  LET cp == IF codepage = WIN_DEFAULT_ENCODING THEN DefaultCodepage(flags) ELSE codepage
      trackDefault == wantFailed /\ cp # CP_UTF8
      conv == WideCharToMultiByte(cp, wstr)
  IN  IF conv.null
      THEN [buf |-> Null, failed |-> IF wantFailed THEN Assigned(1) ELSE Unassigned]
      ELSE [buf |-> Some(conv.v.bytes),
            failed |-> IF wantFailed
                       THEN Assigned(IF trackDefault /\ conv.v.usedDefault THEN 1 ELSE 0)
                       ELSE Unassigned]

(***************************************************************************)
(* Native error codes (GetLastError) and the errno values they map to.     *)
(***************************************************************************)
NO_ERROR == 0
ERROR_FILE_NOT_FOUND == 2
ERROR_PATH_NOT_FOUND == 3
ERROR_ACCESS_DENIED == 5
ERROR_INVALID_HANDLE == 6
ERROR_NO_MORE_FILES == 18
ERROR_NOT_READY == 21
ERROR_NO_UNICODE_TRANSLATION == 1113
ERROR_INVALID_DRIVE == 15
ERROR_BAD_NETPATH == 53
ERROR_BAD_PATHNAME == 161
ERROR_FILENAME_EXCED_RANGE == 206
ERROR_TOO_MANY_OPEN_FILES == 4
ERROR_SHARING_VIOLATION == 32
ERROR_NETWORK_ACCESS_DENIED == 65
ERROR_FAIL_I24 == 83
ERROR_SEEK_ON_DEVICE == 132
ERROR_LOCK_VIOLATION == 33
ERROR_DRIVE_LOCKED == 108
ERROR_NOT_LOCKED == 158
ERROR_LOCK_FAILED == 167
ERROR_NOT_ENOUGH_MEMORY == 8
ERROR_INVALID_BLOCK == 9
ERROR_NOT_ENOUGH_QUOTA == 1816
ERROR_INVALID_ACCESS == 12
ERROR_INVALID_DATA == 13
ERROR_INVALID_PARAMETER == 87
ERROR_BROKEN_PIPE == 109
ERROR_NO_DATA == 232
ERROR_DISK_FULL == 112
ERROR_ALREADY_EXISTS == 183
ERROR_NESTING_NOT_ALLOWED == 215
\* the range of error codes for access errors
ERROR_WRITE_PROTECT == 19
ERROR_SHARING_BUFFER_EXCEEDED == 36
MIN_EACCES_RANGE == ERROR_WRITE_PROTECT
MAX_EACCES_RANGE == ERROR_SHARING_BUFFER_EXCEEDED

E_NONE == "0"
ENOENT == "ENOENT"
EACCES == "EACCES"
EBADF == "EBADF"
EINVAL == "EINVAL"
ENOMEM == "ENOMEM"

EMFILE == "EMFILE"
EPIPE == "EPIPE"
ENOSPC == "ENOSPC"
EEXIST == "EEXIST"
EAGAIN == "EAGAIN"

\* lines 191-230: the cases of the switch after NO_ERROR; Null when none applies
ErrorCases(error_code) ==
  IF error_code \in {ERROR_FILE_NOT_FOUND, ERROR_PATH_NOT_FOUND,
                     ERROR_INVALID_DRIVE, ERROR_BAD_NETPATH,
                     ERROR_BAD_PATHNAME, ERROR_FILENAME_EXCED_RANGE}
  THEN Some(ENOENT)
  ELSE IF error_code = ERROR_TOO_MANY_OPEN_FILES THEN Some(EMFILE)
  ELSE IF error_code \in {ERROR_ACCESS_DENIED, ERROR_SHARING_VIOLATION}
       THEN Some(EACCES)
  ELSE IF error_code \in {ERROR_NETWORK_ACCESS_DENIED, ERROR_FAIL_I24,
                          ERROR_SEEK_ON_DEVICE}
       THEN Some(EACCES)
  ELSE IF error_code \in {ERROR_LOCK_VIOLATION, ERROR_DRIVE_LOCKED,
                          ERROR_NOT_LOCKED, ERROR_LOCK_FAILED}
       THEN Some(EACCES)
  ELSE IF error_code = ERROR_INVALID_HANDLE THEN Some(EBADF)
  ELSE IF error_code \in {ERROR_NOT_ENOUGH_MEMORY, ERROR_INVALID_BLOCK,
                          ERROR_NOT_ENOUGH_QUOTA}
       THEN Some(ENOMEM)
  ELSE IF error_code \in {ERROR_INVALID_ACCESS, ERROR_INVALID_DATA,
                          ERROR_INVALID_PARAMETER}
       THEN Some(EINVAL)
  ELSE IF error_code \in {ERROR_BROKEN_PIPE, ERROR_NO_DATA} THEN Some(EPIPE)
  ELSE IF error_code = ERROR_DISK_FULL THEN Some(ENOSPC)
  ELSE IF error_code = ERROR_ALREADY_EXISTS THEN Some(EEXIST)
  ELSE IF error_code = ERROR_NESTING_NOT_ALLOWED THEN Some(EAGAIN)
  ELSE Null

\* a mutant of ErrorTable: the case of NO_ERROR is missing
ErrorTable_WithoutNoError(error_code) == ErrorCases(error_code)

\* lines 187-231: the switch; Null when no case applies
ErrorTable(error_code) ==
  IF error_code = NO_ERROR THEN Some(E_NONE) ELSE ErrorCases(error_code)

\* a mutant of RangeFallback: the upper end of the range is left out
RangeFallback_Exclusive(error_code) ==
  IF MIN_EACCES_RANGE <= error_code /\ error_code < MAX_EACCES_RANGE
  THEN EACCES ELSE EINVAL

\* lines 233-238: try to detect error by range
RangeFallback(error_code) ==
  IF MIN_EACCES_RANGE <= error_code /\ error_code <= MAX_EACCES_RANGE
  THEN EACCES ELSE EINVAL

\* static int convert_last_error_to_errno(void), as a function of the value
\* GetLastError() returns
convert_last_error_to_errno(error_code) ==
  IF ~ErrorTable(error_code).null THEN ErrorTable(error_code).v
  ELSE RangeFallback(error_code)

(***************************************************************************)
(* The state.                                                              *)
(***************************************************************************)
VARIABLES
  opt_flags,    \* opt.flags: the encoding options
  lastError,    \* the value GetLastError() returns
  errno,        \* the C errno
  dirs,         \* the WIN_DIR objects: Null or Some(struct WIN_DIR_t)
  findHandles,  \* native enumeration handles: listing, cursor, open or closed
  hist,         \* per iterator: what it returned and the native calls it made
  files,        \* the wide paths at which a file exists
  handles,      \* open file handles: [path, access, share, owner]
  heapBufs,     \* live temporary string buffers (malloc'ed, not yet freed)
  call,         \* the last operation: its arguments, its result, its native calls
  mp,           \* make_pathw: its arguments and its result
  threads       \* per thread inside win_readdir: its position and its locals

vars == <<opt_flags, lastError, errno, dirs, findHandles, hist, files, handles,
          heapBufs, call, mp, threads>>

\* no thread is inside a call that is modelled step by step
NoThreads == <<>>

dirVars == <<dirs, findHandles, hist>>
fileVars == <<files, handles>>

(***************************************************************************)
(* Directory iterator.                                                     *)
(*                                                                         *)
(* A native enumeration handle delivers the records of its listing one at  *)
(* a time: FindFirstFileW the first, each FindNextFileW the next or the    *)
(* end.  findHandles[d].listing holds the records delivered so far, in     *)
(* order, and .ended says that the native side has reported the end.       *)
(***************************************************************************)
DirIds == {1}

INVALID_HANDLE_VALUE == [valid |-> FALSE]
FindHandle(h) == [valid |-> TRUE, h |-> h]

NUL == "U0000"
\* wstr[i] of a NUL-terminated wide string, i counted from 0
CharAt(wstr, i) == IF i < Len(wstr) THEN wstr[i + 1] ELSE NUL

\* WIN32_FIND_DATAW records of the native listings
FindData(name, isDir) == [cFileName |-> name, isDirectory |-> isDir]
ZeroFindData == FindData(<<>>, FALSE)
FindRecords ==
  { FindData(<<"U002E">>, TRUE),                    \* .
    FindData(<<"U002E", "U002E">>, TRUE),           \* ..
    FindData(<<"U002E", "U002E", "U002E">>, FALSE), \* ...
    FindData(<<"U002E", "U0061">>, TRUE),           \* .a
    FindData(<<"U00E9">>, FALSE),                   \* in every codepage
    FindData(<<"U4E2D">>, TRUE),                    \* in no legacy codepage
    FindData(<<"UD800">>, FALSE) }                  \* refused by the converter

\* the records a handle can still deliver when n more fit the bound
Futures(n) == UNION {[1..k -> FindRecords] : k \in 0..n}

\* the narrow directory paths given to win_opendir
DirPaths == { <<"61">>, <<"C3", "A9">>, <<"E9">>, <<"81">> }

\* what FindFirstFileW can answer: a handle (leaving the last error alone or
\* clearing it) or INVALID_HANDLE_VALUE with an error code
FindErrors == {ERROR_FILE_NOT_FOUND, ERROR_PATH_NOT_FOUND, ERROR_ACCESS_DENIED,
               ERROR_NOT_READY}
FindResults == {[ok |-> TRUE, reset |-> b] : b \in BOOLEAN}
               \cup {[ok |-> FALSE, err |-> e] : e \in FindErrors}

\* a mutant of ShouldRetrySecondary: the access-denied test is left out
ShouldRetrySecondary_Always(hFind, err) == hFind = INVALID_HANDLE_VALUE

\* line 401: whether win_opendir tries the secondary codepage
ShouldRetrySecondary(hFind, err) ==
  hFind = INVALID_HANDLE_VALUE /\ err # ERROR_ACCESS_DENIED

\* line 410: whether win_opendir gives up with EACCES
OpenDenied(hFind, err) ==
  hFind = INVALID_HANDLE_VALUE /\ err = ERROR_ACCESS_DENIED

\* a mutant of OpendirErrno: errno is set only when no handle was obtained
OpendirErrno_OnFailureOnly(hFind, err) ==
  IF OpenDenied(hFind, err) THEN EACCES
  ELSE IF hFind # INVALID_HANDLE_VALUE THEN E_NONE
  ELSE convert_last_error_to_errno(err)

\* lines 410-415: errno after the attempts of win_opendir
OpendirErrno(hFind, err) ==
  IF OpenDenied(hFind, err) THEN EACCES
  ELSE convert_last_error_to_errno(err)

\* a mutant of InitialState: every new iterator starts in state 0
InitialState_Zero(hFind) == 0

\* line 417: the state of a new iterator
InitialState(hFind) == IF hFind = INVALID_HANDLE_VALUE THEN -1 ELSE 0

\* One FindFirstFileW call of win_opendir made on top of the attempt record a.
FindFirstFileW(a, d, try_no, wpath, res, first) ==
  IF res.ok
  THEN [a EXCEPT !.hFind = FindHandle(d),
                 !.findFileData = first,
                 !.lastError = IF res.reset THEN NO_ERROR ELSE a.lastError,
                 !.log = Append(a.log, [try_no |-> try_no, wpath |-> wpath, res |-> res])]
  ELSE [a EXCEPT !.hFind = INVALID_HANDLE_VALUE,
                 !.lastError = res.err,
                 !.log = Append(a.log, [try_no |-> try_no, wpath |-> wpath, res |-> res])]

\* win_opendir after both mallocs succeeded: the attempts, lines 396-408, on
\* wpath0 = c2w(path, 0) and wpath1 = c2w(path, 1).  allocs and frees count
\* the temporary buffers (path, wpath).
OpendirAttempts(le, d, wpath0, wpath1, res0, res1, first) ==
  LET start == [hFind |-> INVALID_HANDLE_VALUE, findFileData |-> ZeroFindData,
                lastError |-> le, log |-> <<>>, allocs |-> 1, frees |-> 0]
      a0 == IF wpath0.null
            THEN [start EXCEPT !.lastError = ERROR_NO_UNICODE_TRANSLATION]
            ELSE [FindFirstFileW(start, d, 0, wpath0.v, res0, first)
                    EXCEPT !.allocs = @ + 1, !.frees = @ + 1]
      a1 == IF ~ShouldRetrySecondary(a0.hFind, a0.lastError) THEN a0
            ELSE IF wpath1.null
            THEN [a0 EXCEPT !.lastError = ERROR_NO_UNICODE_TRANSLATION]
            ELSE [FindFirstFileW(a0, d, 1, wpath1.v, res1, first)
                    EXCEPT !.allocs = @ + 1, !.frees = @ + 1]
  IN  [a1 EXCEPT !.frees = @ + 1]

\* What an iterator did since its open: whether both FindFirstFileW calls of
\* the open found no matching files, the entries it returned, how often it
\* returned End, its FindNextFileW calls, the records it examined, its live
\* narrow-name buffers.
NewHist == [phase |-> "new", emptyDir |-> FALSE, returned |-> <<>>, ends |-> 0,
            nFindNext |-> 0, examined |-> 0, live |-> 0, peak |-> 0,
            doubleFree |-> FALSE, readUnassigned |-> FALSE]
NoFindHandle == [status |-> "none", listing |-> <<>>, ended |-> FALSE, closes |-> 0]

\* What the environment answers during one win_opendir: which malloc fails,
\* the two FindFirstFileW results and the first record of the listing.  An
\* answer that cannot be asked for (the second result after a first success,
\* the record of a failed enumeration) is fixed to one value.
AnyFail == [ok |-> FALSE, err |-> ERROR_FILE_NOT_FOUND]
AnyRecord == FindData(<<"U002E">>, TRUE)
OpenScenarios ==
  {[mallocFail |-> m, res0 |-> AnyFail, res1 |-> AnyFail, first |-> AnyRecord] :
     m \in {"path", "d"}}
  \cup {[mallocFail |-> "none", res0 |-> r0, res1 |-> r1, first |-> f] :
          r0 \in FindResults, r1 \in FindResults, f \in FindRecords}

\* WIN_DIR* win_opendir(const char* dir_path).  An iterator object lives once:
\* d names the object this call creates.
win_opendir(d) ==
  /\ dirs[d].null
  /\ hist[d].phase = "new"
  /\ \E dir_path \in DirPaths :
     LET path == dir_path \o <<"5C", "2A">>   \* append '\*' to the dir_path
     IN
     \E wpath0 \in {c2w(opt_flags, path, 0)}, wpath1 \in {c2w(opt_flags, path, 1)},
        env \in OpenScenarios :
       IF env.mallocFail # "none"
       THEN /\ errno' = ENOMEM
            /\ call' = [op |-> "opendir", d |-> d, path |-> dir_path, ret |-> Null,
                        log |-> <<>>, errnoAssigned |-> TRUE]
            /\ UNCHANGED <<lastError, dirs, findHandles, hist, heapBufs>>
       ELSE (env.res0.ok => env.res1 = AnyFail) /\
            \E a \in {OpendirAttempts(lastError, d, wpath0, wpath1,
                                      env.res0, env.res1, env.first)} :
            LET opened == a.hFind # INVALID_HANDLE_VALUE
                denied == OpenDenied(a.hFind, a.lastError)
                obj == [findFileData |-> a.findFileData, hFind |-> a.hFind,
                        dir |-> [d_name |-> Null, d_wname |-> Null, d_isdir |-> FALSE],
                        state |-> InitialState(a.hFind)]
            IN  /\ (~opened => env.first = AnyRecord)
                /\ lastError' = a.lastError
                /\ errno' = OpendirErrno(a.hFind, a.lastError)
                /\ dirs' = [dirs EXCEPT ![d] = IF denied THEN Null ELSE Some(obj)]
                /\ findHandles' = [findHandles EXCEPT ![d] =
                     IF opened
                     THEN [status |-> "open", listing |-> <<env.first>>,
                           ended |-> FALSE, closes |-> 0]
                     ELSE NoFindHandle]
                /\ hist' = [hist EXCEPT
                     ![d].phase = IF denied THEN "new" ELSE "open",
                     ![d].emptyDir =
                        /\ Len(a.log) = 2
                        /\ \A i \in 1..2 : /\ ~a.log[i].res.ok
                                            /\ a.log[i].res.err = ERROR_FILE_NOT_FOUND]
                /\ heapBufs' = heapBufs + a.allocs - a.frees
                /\ call' = [op |-> "opendir", d |-> d, path |-> dir_path,
                            ret |-> IF denied THEN Null ELSE Some(d),
                            log |-> a.log, errnoAssigned |-> TRUE]
  /\ UNCHANGED <<opt_flags, files, handles, mp, threads>>

\* a mutant of ReaddirEnded: the test of the terminal state is left out
ReaddirEnded_Never(state) == FALSE

\* line 478: the iterator has ended
ReaddirEnded(state) == state = -1

\* a mutant of NeedFindNext: the record buffered by the open is fetched over
NeedFindNext_Always(state) == state >= 0

\* line 485: the record in findFileData was consumed, fetch the next one
NeedFindNext(state) == state > 0

\* a mutant of IsDotOrDotDot: only "." is recognised
IsDotOrDotDot_OnlyDot(cFileName) ==
  CharAt(cFileName, 0) = "U002E" /\ CharAt(cFileName, 1) = NUL

\* lines 494-497: the name is "." or ".."
IsDotOrDotDot(cFileName) ==
  /\ CharAt(cFileName, 0) = "U002E"
  /\ \/ CharAt(cFileName, 1) = NUL
     \/ (CharAt(cFileName, 1) = "U002E" /\ CharAt(cFileName, 2) = NUL)

\* line 504: filename && !failed
EntryAccepted(filename, failed) ==
  ~filename.null /\ (failed.assigned => failed.val = 0)

\* a mutant of SkipFrees: the buffer of a skipped name is not freed
SkipFrees_Never(filename) == FALSE

\* line 511: if (filename), the buffer of a skipped name is freed
SkipFrees(filename) == ~filename.null

\* The for (;;) loop of win_readdir, lines 484-515, run to its return.
\* r carries the iterator's fields, the native handle (listing delivered so
\* far, records still to come in r.future) and the accounts.
RECURSIVE ReaddirLoop(_, _, _)
ReaddirLoop(flags, hValid, r) ==
  LET fetch == NeedFindNext(r.state)
      more == hValid /\ ~r.ended /\ r.future # <<>>
  IN
  IF fetch /\ ~more
  THEN \* FindNextFileW returned FALSE: the directory listing has ended
       [r EXCEPT !.state = -1, !.ret = Null, !.nFindNext = @ + 1,
                 !.ended = @ \/ hValid,
                 !.lastError = IF hValid THEN ERROR_NO_MORE_FILES
                               ELSE ERROR_INVALID_HANDLE]
  ELSE
  LET r1 == IF fetch
            THEN [r EXCEPT !.listing = Append(@, Head(r.future)),
                           !.future = Tail(@),
                           !.findFileData = Head(r.future),
                           !.nFindNext = @ + 1]
            ELSE r
      r2 == [r1 EXCEPT !.state = @ + 1, !.examined = @ + 1]
      name == r2.findFileData.cFileName
  IN
  IF IsDotOrDotDot(name) THEN ReaddirLoop(flags, hValid, r2)
  ELSE
  LET conv == wchar_to_cstr(flags, name, WIN_DEFAULT_ENCODING, TRUE)
      r3 == [r2 EXCEPT !.d_name = conv.buf,
                       !.live = IF conv.buf.null THEN @ ELSE @ + 1,
                       !.peak = IF ~conv.buf.null /\ r2.live + 1 > @
                                THEN r2.live + 1 ELSE @,
                       !.lastError = IF conv.buf.null
                                     THEN ERROR_NO_UNICODE_TRANSLATION ELSE @,
                       !.readUnassigned = @ \/ (~conv.buf.null /\ ~conv.failed.assigned)]
  IN
  IF EntryAccepted(conv.buf, conv.failed)
  THEN [r3 EXCEPT !.d_wname = Some(name),
                  !.d_isdir = r2.findFileData.isDirectory,
                  !.ret = Some([d_name |-> conv.buf.v, d_wname |-> name,
                                d_isdir |-> r2.findFileData.isDirectory])]
  ELSE \* quietly skip an invalid filename and repeat the search
       ReaddirLoop(flags, hValid,
                   IF SkipFrees(conv.buf)
                   THEN [r3 EXCEPT !.d_name = Null, !.live = @ - 1]
                   ELSE r3)

\* struct win_dirent* win_readdir(WIN_DIR* d)
win_readdir(d) ==
  /\ ~dirs[d].null
  /\ LET obj == dirs[d].v
         h == findHandles[d]
         hValid == obj.hFind # INVALID_HANDLE_VALUE /\ h.status = "open"
     IN
     \E future \in (IF hValid /\ ~h.ended /\ ~ReaddirEnded(obj.state)
                    THEN Futures(MaxEntries - Len(h.listing)) ELSE {<<>>}) :
     LET start == [state |-> obj.state, findFileData |-> obj.findFileData,
                   d_name |-> Null, d_wname |-> obj.dir.d_wname,
                   d_isdir |-> obj.dir.d_isdir,
                   listing |-> h.listing, future |-> future, ended |-> h.ended,
                   nFindNext |-> hist[d].nFindNext,
                   examined |-> hist[d].examined,
                   live |-> IF obj.dir.d_name.null THEN hist[d].live
                            ELSE hist[d].live - 1,
                   peak |-> hist[d].peak,
                   doubleFree |-> hist[d].doubleFree
                                  \/ (~obj.dir.d_name.null /\ hist[d].live = 0),
                   readUnassigned |-> hist[d].readUnassigned,
                   lastError |-> lastError, ret |-> Null]
     IN
     \E r \in {IF ReaddirEnded(obj.state)
               THEN [start EXCEPT !.d_name = obj.dir.d_name, !.live = hist[d].live,
                                  !.doubleFree = hist[d].doubleFree]
               ELSE ReaddirLoop(opt_flags, hValid, start)} :
         /\ dirs' = [dirs EXCEPT ![d] =
                       Some([findFileData |-> r.findFileData, hFind |-> obj.hFind,
                             dir |-> [d_name |-> r.d_name, d_wname |-> r.d_wname,
                                      d_isdir |-> r.d_isdir],
                             state |-> r.state])]
         /\ findHandles' = [findHandles EXCEPT ![d].listing = r.listing,
                                               ![d].ended = r.ended]
         /\ hist' = [hist EXCEPT ![d] =
                       [phase |-> @.phase, emptyDir |-> @.emptyDir,
                        returned |-> IF r.ret.null THEN @.returned
                                     ELSE Append(@.returned, r.ret.v),
                        ends |-> IF r.ret.null /\ @.ends < MaxEnds THEN @.ends + 1
                                 ELSE @.ends,
                        nFindNext |-> r.nFindNext, examined |-> r.examined,
                        live |-> r.live, peak |-> r.peak,
                        doubleFree |-> r.doubleFree,
                        readUnassigned |-> r.readUnassigned]]
         /\ lastError' = r.lastError
         /\ call' = [op |-> "readdir", d |-> d, path |-> <<>>, ret |-> r.ret,
                     log |-> <<>>, errnoAssigned |-> FALSE]
  /\ UNCHANGED <<opt_flags, errno, files, handles, heapBufs, mp, threads>>

\* a mutant of FindCloseNeeded: the handle is never released
FindCloseNeeded_Never(hFind) == FALSE

\* a mutant of FindCloseNeeded: FindClose is called on an invalid handle too
FindCloseNeeded_Always(hFind) == TRUE

\* line 460: the handle is released only when it is valid
FindCloseNeeded(hFind) == hFind # INVALID_HANDLE_VALUE

\* void win_closedir(WIN_DIR* d)
win_closedir(d) ==
  /\ ~dirs[d].null
  /\ LET obj == dirs[d].v
     IN  /\ findHandles' = [findHandles EXCEPT ![d] =
                IF FindCloseNeeded(obj.hFind)
                THEN [@ EXCEPT !.status = "closed", !.closes = @ + 1]
                ELSE @]
         /\ hist' = [hist EXCEPT ![d].phase = "closed",
                                 ![d].live = IF obj.dir.d_name.null THEN @ ELSE @ - 1,
                                 ![d].doubleFree = @ \/ (~obj.dir.d_name.null
                                                         /\ hist[d].live = 0)]
         /\ dirs' = [dirs EXCEPT ![d] = Null]
         /\ call' = [op |-> "closedir", d |-> d, path |-> <<>>, ret |-> Null,
                     log |-> <<>>, errnoAssigned |-> FALSE]
  /\ UNCHANGED <<opt_flags, lastError, errno, files, handles, heapBufs, mp, threads>>

(***************************************************************************)
(* The specification of the directory iterator: the encoding options and   *)
(* the last error left by earlier native calls are arbitrary, no iterator  *)
(* exists.                                                                 *)
(***************************************************************************)
NoCall == [op |-> "none", d |-> 0, path |-> <<>>, ret |-> Null, log |-> <<>>,
           errnoAssigned |-> FALSE]
NoPath == [separators |-> {}, dir |-> Null, dir_len |-> 0, filename |-> <<>>,
           res |-> Null]

InitDir ==
  /\ opt_flags \in EncodingModes
  /\ lastError \in {NO_ERROR, ERROR_ACCESS_DENIED}
  /\ errno = E_NONE
  /\ dirs = [d \in DirIds |-> Null]
  /\ findHandles = [d \in DirIds |-> NoFindHandle]
  /\ hist = [d \in DirIds |-> NewHist]
  /\ files = {}
  /\ handles = {}
  /\ heapBufs = 0
  /\ call = NoCall
  /\ mp = NoPath
  /\ threads = NoThreads

NextDir == \E d \in DirIds : win_opendir(d) \/ win_readdir(d) \/ win_closedir(d)

SpecDir == InitDir /\ [][NextDir]_vars

(***************************************************************************)
(* What the claims about the iterator speak of.                            *)
(***************************************************************************)
Dot == <<"U002E">>
DotDot == <<"U002E", "U002E">>

\* The record is neither "." nor ".." and its name converts to the narrow
\* encoding of the mode with no failure and no substituted character.
Kept(flags, rec) ==
  /\ rec.cFileName \notin {Dot, DotDot}
  /\ \E conv \in {WideCharToMultiByte(DefaultCodepage(flags), rec.cFileName)} :
       ~conv.null /\ ~conv.v.usedDefault

EntryOf(flags, rec) ==
  [d_name |-> WideCharToMultiByte(DefaultCodepage(flags), rec.cFileName).v.bytes,
   d_wname |-> rec.cFileName, d_isdir |-> rec.isDirectory]

\* The entries of the kept records of a listing, in the listing's order.
RECURSIVE ExpectedEntries(_, _)
ExpectedEntries(flags, listing) ==
  IF listing = <<>> THEN <<>>
  ELSE (IF Kept(flags, Head(listing)) THEN <<EntryOf(flags, Head(listing))>> ELSE <<>>)
       \o ExpectedEntries(flags, Tail(listing))

FailedWith(attempt, err) == ~attempt.res.ok /\ attempt.res.err = err

\* C1: win_readdir never returns an entry whose wide name is "." or "..",
\* and once the listing has ended every record whose name only starts with a
\* dot (and converts) has been returned.
C1_NoPseudoEntries ==
  \A d \in DirIds :
    /\ \A i \in 1..Len(hist[d].returned) :
         hist[d].returned[i].d_wname \notin {Dot, DotDot}
    /\ (call.op = "readdir" /\ call.d = d /\ ~call.ret.null)
         => call.ret.v.d_wname \notin {Dot, DotDot}
    /\ hist[d].ends > 0 =>
         \A j \in 1..Len(findHandles[d].listing) :
           LET rec == findHandles[d].listing[j]
           IN  (Head(rec.cFileName) = "U002E" /\ Kept(opt_flags, rec))
                 => \E i \in 1..Len(hist[d].returned) :
                      hist[d].returned[i].d_wname = rec.cFileName

\* C1 witness: a listing holding "." and ".." ended and "..." was returned.
C1_Witness ==
  \E d \in DirIds :
    /\ hist[d].ends > 0
    /\ \E j \in 1..Len(findHandles[d].listing) :
         findHandles[d].listing[j].cFileName = Dot
    /\ \E j \in 1..Len(findHandles[d].listing) :
         findHandles[d].listing[j].cFileName = DotDot
    /\ \E i \in 1..Len(hist[d].returned) :
         hist[d].returned[i].d_wname = <<"U002E", "U002E", "U002E">>

\* C2: once win_readdir has returned End on an open iterator, a later
\* win_readdir on it returns End, calls no native enumeration function and
\* leaves the iterator in state -1.
C2_EndIsTerminal ==
  [][\A d \in DirIds :
       (hist[d].ends > 0 /\ ~dirs[d].null /\ call'.op = "readdir" /\ call'.d = d)
         => /\ call'.ret.null
            /\ hist'[d].nFindNext = hist[d].nFindNext
            /\ findHandles'[d] = findHandles[d]
            /\ ~dirs'[d].null
            /\ dirs'[d].v.state = -1]_vars

\* C2 witness: a second End was returned, after entries had been returned.
C2_Witness ==
  \E d \in DirIds :
    /\ hist[d].ends = 2
    /\ hist[d].returned # <<>>
    /\ call.op = "readdir" /\ call.ret.null
    /\ ~dirs[d].null /\ dirs[d].v.state = -1

\* C3: the entries returned up to End are the listing's records in native
\* order without "." and "..", and without the names that fail the narrow
\* conversion; every delivered record is examined once, the first without a
\* FindNextFileW call; each entry's three fields come from one record.
C3_ReturnedIsFilteredListing ==
  \A d \in DirIds :
    LET h == findHandles[d]
        examined == hist[d].examined
    IN  /\ examined <= Len(h.listing)
        /\ hist[d].returned =
             ExpectedEntries(opt_flags, SubSeq(h.listing, 1, examined))
        /\ (examined > 0 \/ hist[d].ends > 0) => examined = Len(h.listing)
        /\ h.status # "none" =>
             hist[d].nFindNext = (Len(h.listing) - 1) + (IF h.ended THEN 1 ELSE 0)
        /\ (hist[d].ends > 0 /\ h.status # "none") => h.ended

\* C3 witness: a listing of three records ended, one was returned and the
\* pseudo-entry and the unconvertible name were dropped.
C3_Witness ==
  \E d \in DirIds :
    /\ hist[d].ends > 0
    /\ Len(findHandles[d].listing) = 3
    /\ findHandles[d].listing[1].cFileName = DotDot
    /\ findHandles[d].listing[2].cFileName = <<"UD800">>
    /\ Len(hist[d].returned) = 1
    /\ hist[d].returned[1].d_wname = findHandles[d].listing[3].cFileName

\* C3 witness of the particular case: a listing of "." and ".." alone ended
\* with no entry returned.
C3_WitnessOnlyPseudo ==
  \E d \in DirIds :
    /\ hist[d].ends > 0
    /\ Len(findHandles[d].listing) = 2
    /\ \A j \in 1..2 : findHandles[d].listing[j].cFileName \in {Dot, DotDot}
    /\ hist[d].returned = <<>>

\* C4: when the FindFirstFileW call of attempt 0 fails with access denied,
\* attempt 1 is not made, win_opendir returns NULL and errno is EACCES; and
\* whenever the last FindFirstFileW call made failed with access denied,
\* win_opendir returns NULL with errno EACCES.
C4_AccessDeniedIsFinal ==
  (call.op = "opendir" /\ call.log # <<>>) =>
    /\ (call.log[1].try_no = 0 /\ FailedWith(call.log[1], ERROR_ACCESS_DENIED))
         => (Len(call.log) = 1 /\ call.ret.null /\ errno = EACCES
             /\ dirs[call.d].null)
    /\ FailedWith(Last(call.log), ERROR_ACCESS_DENIED)
         => (call.ret.null /\ errno = EACCES /\ dirs[call.d].null)

\* C4 witness: attempt 0 was denied for a path that converts under the
\* secondary codepage as well, and win_opendir returned NULL.
C4_Witness ==
  /\ call.op = "opendir"
  /\ Len(call.log) = 1
  /\ call.log[1].try_no = 0
  /\ FailedWith(call.log[1], ERROR_ACCESS_DENIED)
  /\ ~c2w(opt_flags, call.path \o <<"5C", "2A">>, 1).null
  /\ call.ret.null

\* C5: when both attempts fail with "no matching files" win_opendir returns
\* an iterator in state -1 that holds no native handle; every win_readdir on
\* it returns End and win_closedir releases no native handle.
C5_EmptyDirIsExhausted ==
  \A d \in DirIds :
    hist[d].emptyDir =>
      /\ hist[d].phase \in {"open", "closed"}
      /\ (call.op = "opendir" /\ call.d = d) => ~call.ret.null
      /\ ~dirs[d].null =>
           (dirs[d].v.state = -1 /\ dirs[d].v.hFind = INVALID_HANDLE_VALUE)
      /\ (call.op = "readdir" /\ call.d = d) => call.ret.null
      /\ hist[d].returned = <<>>
      /\ hist[d].nFindNext = 0
      /\ findHandles[d].status = "none"
      /\ findHandles[d].closes = 0

\* C5 witness: such an iterator returned End and was closed.
C5_Witness ==
  \E d \in DirIds :
    /\ hist[d].emptyDir
    /\ hist[d].ends > 0
    /\ hist[d].phase = "closed"

(***************************************************************************)
(* Exclusive file accessor.                                                *)
(*                                                                         *)
(* The native file system: a file exists at each wide path of files; an    *)
(* open handle records the access it was given and the access it shares    *)
(* with other handles.  Other processes hold at most MaxLocks handles.  An  *)
(* open fails with ENOENT when no file is at the   *)
(* path and with EACCES (a sharing violation) when it asks for an access   *)
(* another handle does not share, or does not share an access another      *)
(* handle holds.                                                           *)
(***************************************************************************)
\* the narrow file paths given to win_fopen_ex and can_open_exclusive
FilePaths == { <<"61">>, <<"C3", "A9">>, <<"E9">>, <<"81">> }
\* the wide paths they name under some codepage
WFilePaths ==
  {MultiByteToWideChar(cp, p).v :
     <<cp, p>> \in {x \in {CP_ACP, CP_OEMCP, CP_UTF8} \X FilePaths :
                      ~MultiByteToWideChar(x[1], x[2]).null}}

READ == "r"
WRITE == "w"
\* the sharing flags: _SH_DENYWR shares reading only, _SH_DENYNO everything
SH_DENYWR == {READ}
SH_DENYNO == {READ, WRITE}

\* the mode given to win_fopen_ex: "r"
FileModes == { <<"72">> }
\* the access a wide fopen mode asks for
ModeAccess(wmode) ==
  IF \E i \in 1..Len(wmode) : wmode[i] = "U002B" THEN {READ, WRITE} ELSE {READ}

SharingConflict(hs, wpath, access, share) ==
  \E h \in hs : h.path = wpath /\ ~(access \subseteq h.share /\ h.access \subseteq share)

\* CreateFileW under _wfsopen and _wsopen for a file that must exist
NativeOpen(fs, hs, wpath, access, share) ==
  IF wpath \notin fs
  THEN [ok |-> FALSE, errno |-> ENOENT]
  ELSE IF SharingConflict(hs, wpath, access, share)
  THEN [ok |-> FALSE, errno |-> EACCES]
  ELSE [ok |-> TRUE, errno |-> E_NONE]

\* the one element of a singleton
The(S) == CHOOSE x \in S : TRUE

HandleIds == 0..(MaxHeld + MaxLocks)
NewHandleId(hs) == CHOOSE i \in HandleIds :
                     /\ \A h \in hs : h.id # i
                     /\ \A j \in HandleIds : (j < i) => \E h \in hs : h.id = j

\* a mutant of FopenShouldBreak: the loop ends on success only
FopenShouldBreak_OnSuccessOnly(fd, err) == ~fd.null

\* line 146: if (fd || errno != ENOENT) break
FopenShouldBreak(fd, err) == ~fd.null \/ err # ENOENT

\* the share flag of line 144
FopenShare(exclusive) == IF exclusive THEN SH_DENYWR ELSE SH_DENYNO

\* The loop of win_fopen_ex, lines 141-147, from attempt i on.  st carries
\* fd, errno, the handles and the log of the attempts.
\* the state after one native open of attempt i: lines 144-145
FopenAttempt(fs, wmode, exclusive, i, st, wpath) ==
  LET o == NativeOpen(fs, st.handles, wpath.v, ModeAccess(wmode), FopenShare(exclusive))
      h == [id |-> NewHandleId(st.handles), path |-> wpath.v,
            access |-> ModeAccess(wmode), share |-> FopenShare(exclusive),
            owner |-> "self"]
  IN  [st EXCEPT !.fd = IF o.ok THEN Some(h.id) ELSE Null,
                 !.handles = IF o.ok THEN @ \cup {h} ELSE @,
                 !.errno = IF o.ok THEN @ ELSE o.errno,
                 !.errnoAssigned = @ \/ ~o.ok,
                 !.log = Append(@, [try_no |-> i, wpath |-> wpath,
                                    ok |-> o.ok, errno |-> o.errno]),
                 !.allocs = @ + 1, !.frees = @ + 1]

\* the state after an attempt whose conversion failed: line 143
ConversionFailed(i, st) ==
  [st EXCEPT !.log = Append(@, [try_no |-> i, wpath |-> Null,
                                ok |-> FALSE, errno |-> E_NONE])]

\* The loop of win_fopen_ex, lines 141-147, from attempt i on.  st carries
\* fd, errno, the handles and the log of the attempts.
RECURSIVE FopenLoop(_, _, _, _, _, _, _)
FopenLoop(flags, fs, path, wmode, exclusive, i, st) ==
  IF i >= 2 THEN st
  ELSE The(UNION {
    IF wpath.null
    THEN {FopenLoop(flags, fs, path, wmode, exclusive, i + 1, st0) :
            st0 \in {ConversionFailed(i, st)}}
    ELSE {IF FopenShouldBreak(st1.fd, st1.errno) THEN st1
          ELSE FopenLoop(flags, fs, path, wmode, exclusive, i + 1, st1) :
            st1 \in {FopenAttempt(fs, wmode, exclusive, i, st, wpath)}}
    : wpath \in {c2w(flags, path, i)}})

OwnedBy(hs, owner) == {h \in hs : h.owner = owner}

\* FILE* win_fopen_ex(const char* path, const char* mode, int exclusive).
\* The caller keeps at most MaxHeld files open.
win_fopen_ex ==
  /\ Cardinality(OwnedBy(handles, "self")) < MaxHeld
  /\ \E path \in FilePaths, mode \in FileModes, exclusive \in BOOLEAN :
     \E wmode \in {utf8_to_wchar(mode)} :
       /\ ~wmode.null      \* assert(wmode != NULL)
       /\ \E st \in {FopenLoop(opt_flags, files, path, wmode.v, exclusive, 0,
                       [fd |-> Null, handles |-> handles, errno |-> errno,
                        errnoAssigned |-> FALSE,
                        log |-> <<>>, allocs |-> 1, frees |-> 0])} :
            /\ handles' = st.handles
            /\ errno' = st.errno
            /\ heapBufs' = heapBufs + st.allocs - (st.frees + 1)
            /\ call' = [op |-> "fopen", path |-> path, mode |-> mode,
                        exclusive |-> exclusive, ret |-> st.fd, log |-> st.log,
                        errnoAssigned |-> st.errnoAssigned]
  /\ UNCHANGED <<opt_flags, lastError, dirVars, files, mp, threads>>

\* a mutant of ProbeClose: the probe handle is left open
ProbeClose_Forgotten(hs, h) == hs

\* line 168: _close(fd)
ProbeClose(hs, h) == hs \ {h}

\* a mutant of ProbeKeepGoing: the loop does not stop at the first success
ProbeKeepGoing_Always(i, res) == i < 2

\* line 161: i < 2 && res == 0
ProbeKeepGoing(i, res) == i < 2 /\ res = 0

\* the state after one native open of attempt i: lines 164-169
ProbeAttempt(fs, i, st, wpath) ==
  LET o == NativeOpen(fs, st.handles, wpath.v, {READ}, SH_DENYWR)
      h == [id |-> NewHandleId(st.handles), path |-> wpath.v,
            access |-> {READ}, share |-> SH_DENYWR, owner |-> "self"]
  IN  [st EXCEPT !.res = IF o.ok THEN 1 ELSE @,
                 !.handles = IF o.ok THEN ProbeClose(@ \cup {h}, h) ELSE @,
                 !.errno = IF o.ok THEN @ ELSE o.errno,
                 !.errnoAssigned = @ \/ ~o.ok,
                 !.log = Append(@, [try_no |-> i, wpath |-> wpath,
                                    ok |-> o.ok, errno |-> o.errno]),
                 !.allocs = @ + 1, !.frees = @ + 1]

\* The loop of can_open_exclusive, lines 161-171, from attempt i on.
RECURSIVE ProbeLoop(_, _, _, _, _)
ProbeLoop(flags, fs, path, i, st) ==
  IF ~ProbeKeepGoing(i, st.res) THEN st
  ELSE The(UNION {
    IF wpath.null
    THEN {ProbeLoop(flags, fs, path, i + 1, st0) : st0 \in {ConversionFailed(i, st)}}
    ELSE {ProbeLoop(flags, fs, path, i + 1, st1) :
            st1 \in {ProbeAttempt(fs, i, st, wpath)}}
    : wpath \in {c2w(flags, path, i)}})

\* int can_open_exclusive(const char* path)
can_open_exclusive ==
  /\ \E path \in FilePaths :
     \E st \in {ProbeLoop(opt_flags, files, path, 0,
                  [res |-> 0, handles |-> handles, errno |-> errno,
                   errnoAssigned |-> FALSE,
                   log |-> <<>>, allocs |-> 0, frees |-> 0])} :
       /\ handles' = st.handles
       /\ errno' = st.errno
       /\ heapBufs' = heapBufs + st.allocs - st.frees
       /\ call' = [op |-> "probe", path |-> path, ret |-> st.res, log |-> st.log,
                   errnoAssigned |-> st.errnoAssigned]
  /\ UNCHANGED <<opt_flags, lastError, dirVars, files, mp, threads>>

\* The caller closes a file it opened with win_fopen_ex.
CallerCloses ==
  /\ \E h \in OwnedBy(handles, "self") : handles' = handles \ {h}
  /\ call' = NoCall
  /\ UNCHANGED <<opt_flags, lastError, errno, dirVars, files, heapBufs, mp, threads>>

\* Another process opens an existing file, for reading or for writing,
\* sharing every access, when no handle forbids it.
OtherOpens ==
  /\ Cardinality(OwnedBy(handles, "other")) < MaxLocks
  /\ \E wpath \in files, access \in {{READ}, {WRITE}} :
       /\ NativeOpen(files, handles, wpath, access, SH_DENYNO).ok
       /\ handles' = handles \cup {[id |-> NewHandleId(handles), path |-> wpath,
                                    access |-> access, share |-> SH_DENYNO,
                                    owner |-> "other"]}
  /\ call' = NoCall
  /\ UNCHANGED <<opt_flags, lastError, errno, dirVars, files, heapBufs, mp, threads>>

\* Another process closes one of its handles.
OtherCloses ==
  /\ \E h \in OwnedBy(handles, "other") : handles' = handles \ {h}
  /\ call' = NoCall
  /\ UNCHANGED <<opt_flags, lastError, errno, dirVars, files, heapBufs, mp, threads>>

(***************************************************************************)
(* The specification of the file accessor: any encoding options, at most   *)
(* MaxFiles existing files, nothing open.                                  *)
(***************************************************************************)
InitFile ==
  /\ opt_flags \in EncodingModes
  /\ lastError = NO_ERROR
  /\ errno = E_NONE
  /\ dirs = [d \in DirIds |-> Null]
  /\ findHandles = [d \in DirIds |-> NoFindHandle]
  /\ hist = [d \in DirIds |-> NewHist]
  /\ files \in {fs \in SUBSET WFilePaths : Cardinality(fs) <= MaxFiles}
  /\ handles = {}
  /\ heapBufs = 0
  /\ call = NoCall
  /\ mp = NoPath
  /\ threads = NoThreads

NextFile == win_fopen_ex \/ can_open_exclusive \/ CallerCloses \/ OtherOpens
            \/ OtherCloses

SpecFile == InitFile /\ [][NextFile]_vars

(***************************************************************************)
(* Properties of the exclusive file accessor.                              *)
(***************************************************************************)
\* the attempts of the last call that made a native open
NativeOpens(log) == {k \in 1..Len(log) : ~log[k].wpath.null}
\* the attempts of the last call whose native open succeeded
Successes(log) == {k \in 1..Len(log) : log[k].ok}
\* the last call made codepage attempt 1
MadeAttempt1(log) == \E k \in 1..Len(log) : log[k].try_no = 1

\* C6: win_fopen_ex makes codepage attempt 1 if and only if the conversion of
\* attempt 0 failed or its native open failed with ENOENT; it makes at most
\* two native opens, and it returns the handle of the first successful
\* attempt (a null result when no attempt succeeded).
C6_RetryIffUnconvertedOrNotFound ==
  (call.op = "fopen") =>
    LET log == call.log
    IN  /\ Len(log) \in {1, 2}
        /\ \A k \in 1..Len(log) :
             /\ log[k].try_no = k - 1
             /\ log[k].wpath = c2w(opt_flags, call.path, k - 1)
        /\ MadeAttempt1(log) <=>
             (log[1].wpath.null \/ (~log[1].ok /\ log[1].errno = ENOENT))
        /\ Cardinality(NativeOpens(log)) <= 2
        /\ Cardinality(Successes(log)) <= 1
        /\ IF Successes(log) = {}
           THEN call.ret.null
           ELSE /\ ~call.ret.null
                /\ \E h \in handles, k \in Successes(log) :
                     /\ h.id = call.ret.v
                     /\ h.owner = "self"
                     /\ h.path = log[k].wpath.v
                     /\ h.share = FopenShare(call.exclusive)

\* C6: attempt 0 was not found and attempt 1, under the other codepage,
\* opened another wide path.
C6_Witness ==
  /\ call.op = "fopen"
  /\ Len(call.log) = 2
  /\ ~call.log[1].wpath.null /\ call.log[1].errno = ENOENT
  /\ call.log[2].ok
  /\ call.log[2].wpath # call.log[1].wpath

\* a sharing violation at attempt 0 ends the call without attempt 1
C6_WitnessDeniedIsFinal ==
  /\ call.op = "fopen"
  /\ Len(call.log) = 1
  /\ call.log[1].errno = EACCES
  /\ ~c2w(opt_flags, call.path, 1).null
  /\ c2w(opt_flags, call.path, 1).v \in files

\* C7 (as claimed): whenever win_fopen_ex returns a null result, errno was
\* assigned during the call.
C7_NullResultSetsErrno ==
  (call.op = "fopen" /\ call.ret.null) => call.errnoAssigned

\* C7: the path converts under neither codepage, the result is null and errno
\* keeps the value it had before the call.
C7_Witness ==
  /\ call.op = "fopen"
  /\ call.ret.null
  /\ \A k \in 1..Len(call.log) : call.log[k].wpath.null
  /\ ~call.errnoAssigned

\* the file a narrow path names: the one win_fopen_ex resolves it to, at the
\* first codepage under which the path converts and the file exists
RECURSIVE ResolvedFile(_, _, _, _)
ResolvedFile(flags, fs, path, i) ==
  IF i >= 2 THEN Null
  ELSE IF ~c2w(flags, path, i).null /\ c2w(flags, path, i).v \in fs
       THEN c2w(flags, path, i)
       ELSE ResolvedFile(flags, fs, path, i + 1)

WriteLocked(hs, wpath) ==
  \E h \in hs : h.path = wpath /\ h.owner = "other" /\ WRITE \in h.access

\* C8 (as claimed): can_open_exclusive returns 1 for a path whose file exists
\* and has no open handle, and 0 while another process holds the file at that
\* path open for writing, in every encoding mode.
C8_ProbeFollowsLock ==
  (call.op = "probe") =>
    LET w == ResolvedFile(opt_flags, files, call.path, 0)
    IN  (~w.null) =>
          /\ (\A h \in handles : h.path # w.v) => (call.ret = 1)
          /\ WriteLocked(handles, w.v) => (call.ret = 0)

\* C8: the file of the primary codepage is held open for writing by another
\* process and the call returns 1, for the file of the secondary codepage.
C8_Witness ==
  /\ call.op = "probe"
  /\ call.ret = 1
  /\ ~c2w(opt_flags, call.path, 0).null
  /\ WriteLocked(handles, c2w(opt_flags, call.path, 0).v)

\* C9: can_open_exclusive returns 1 if and only if, for one of the two
\* attempts, the path converts and a read-only deny-write open of it succeeds;
\* it stops at the first success; and the open handles, the heap buffers and
\* the files after the call are those before the call.
C9_ProbeIsNonDestructive ==
  [][(call'.op = "probe") =>
       /\ handles' = handles
       /\ heapBufs' = heapBufs
       /\ files' = files
       /\ (call'.ret = 1) <=>
            \E i \in {0, 1} :
              /\ ~c2w(opt_flags, call'.path, i).null
              /\ NativeOpen(files, handles, c2w(opt_flags, call'.path, i).v,
                            {READ}, SH_DENYWR).ok
       /\ call'.ret \in {0, 1}
       /\ \A k \in 1..Len(call'.log) :
            call'.log[k].ok => (k = Len(call'.log))]_vars

\* C9: the probe succeeded at attempt 0 for a path that attempt 1 would open
\* too, while other handles are open.
C9_Witness ==
  /\ call.op = "probe"
  /\ call.ret = 1
  /\ Len(call.log) = 1
  /\ ~c2w(opt_flags, call.path, 1).null
  /\ c2w(opt_flags, call.path, 1).v \in files
  /\ handles # {}

\* the probe failed at both attempts, the second by a sharing violation
C9_WitnessFalse ==
  /\ call.op = "probe"
  /\ call.ret = 0
  /\ Len(call.log) = 2
  /\ call.log[2].errno = EACCES

(***************************************************************************)
(* Path composer.                                                          *)
(*                                                                         *)
(* The separator macros are defined outside this file.  The separator the  *)
(* system appends is the backslash (the "\\*" of win_opendir); the         *)
(* characters the macro IS_PATH_SEPARATOR_W accepts are the backslash and, *)
(* in one of the two variants the model draws, the slash as well.          *)
(***************************************************************************)
BACKSLASH == "U005C"
SLASH == "U002F"
SYS_PATH_SEPARATOR == BACKSLASH
SeparatorSets == { {BACKSLASH}, {BACKSLASH, SLASH} }
IS_PATH_SEPARATOR_W(separators, c) == c \in separators

\* dir_len == (size_t)-1: the length is computed from dir_path
AUTO_LEN == -1

\* the wide strings of at most n characters over the path alphabet
PathAlphabet == {"U0061", BACKSLASH, SLASH}
WideStrings(n) == UNION {[1..k -> PathAlphabet] : k \in 0..n}

\* line 265: while (IS_PATH_SEPARATOR_W(*filename)) filename++
RECURSIVE SkipLeadingSeparators(_, _)
SkipLeadingSeparators(separators, filename) ==
  IF filename # <<>> /\ IS_PATH_SEPARATOR_W(separators, filename[1])
  THEN SkipLeadingSeparators(separators, Drop(filename, 1))
  ELSE filename

\* lines 262-268: the directory length the copy uses
DirLength(dir_path, dir_len) ==
  IF dir_path.null THEN 0
  ELSE IF dir_len = AUTO_LEN THEN Len(dir_path.v)
  ELSE dir_len

\* a mutant of NeedSeparator: a separator is appended to every directory
NeedSeparator_Always(res, dir_len) == TRUE

\* line 274: res[dir_len - 1] != SYS_PATH_SEPARATOR
NeedSeparator(res, dir_len) == res[dir_len] # SYS_PATH_SEPARATOR

\* line 272: if (dir_len > 0)
DirCopied(dir_len) == dir_len > 0

\* a mutant of StripApplies: the filename is stripped without a directory too
StripApplies_Always(dir_path) == TRUE

\* lines 262-265: the leading separators are skipped in the else branch only
StripApplies(dir_path) == ~dir_path.null

\* wchar_t* make_pathw(const wchar_t* dir_path, size_t dir_len,
\*                     wchar_t* filename): the characters of the result
make_pathw(separators, dir_path, dir_len, filename) ==
  LET name == IF StripApplies(dir_path)
              THEN SkipLeadingSeparators(separators, filename)
              ELSE filename
      n == DirLength(dir_path, dir_len)
      copied == IF dir_path.null THEN <<>> ELSE SubSeq(dir_path.v, 1, n)
      res == IF DirCopied(n)
             THEN IF NeedSeparator(copied, n)
                  THEN Append(copied, SYS_PATH_SEPARATOR)
                  ELSE copied
             ELSE <<>>
  IN  res \o name

\* One call of make_pathw on the arguments of mp; its result is a new buffer.
MakePath ==
  /\ mp.res.null
  /\ mp' = [mp EXCEPT !.res = Some(make_pathw(mp.separators, mp.dir, mp.dir_len,
                                              mp.filename))]
  /\ heapBufs' = heapBufs + 1
  /\ call' = [op |-> "make_pathw"]
  /\ UNCHANGED <<opt_flags, lastError, errno, dirVars, files, handles, threads>>

\* The caller frees the result.
FreePath ==
  /\ ~mp.res.null
  /\ call.op = "make_pathw"
  /\ heapBufs' = heapBufs - 1
  /\ call' = [op |-> "free"]
  /\ UNCHANGED <<opt_flags, lastError, errno, dirVars, files, handles, mp, threads>>

\* the arguments of a call: any directory (or none), a length within it (or
\* the request to compute it) and any filename
PathArguments ==
  {a \in [separators : SeparatorSets,
          dir : {Null} \cup {Some(w) : w \in WideStrings(MaxDirLen)},
          dir_len : {AUTO_LEN} \cup (0..MaxDirLen),
          filename : WideStrings(MaxNameLen),
          res : {Null}] :
     (~a.dir.null /\ a.dir_len # AUTO_LEN) => a.dir_len <= Len(a.dir.v)}

InitPath ==
  /\ opt_flags = {}
  /\ lastError = NO_ERROR
  /\ errno = E_NONE
  /\ dirs = [d \in DirIds |-> Null]
  /\ findHandles = [d \in DirIds |-> NoFindHandle]
  /\ hist = [d \in DirIds |-> NewHist]
  /\ files = {}
  /\ handles = {}
  /\ heapBufs = 0
  /\ call = NoCall
  /\ mp \in PathArguments
  /\ threads = NoThreads

NextPath == MakePath \/ FreePath

SpecPath == InitPath /\ [][NextPath]_vars

(***************************************************************************)
(* Properties of the path composer.                                        *)
(***************************************************************************)
\* the directory portion of the arguments: the first dir_len characters of
\* the directory, all of it when the length is to be computed
DirPortion(a) ==
  IF a.dir_len = AUTO_LEN THEN a.dir.v ELSE SubSeq(a.dir.v, 1, a.dir_len)

\* the filename without its leading separators: its longest suffix that does
\* not begin with a separator
StrippedName(a) ==
  LET k == CHOOSE j \in 0..Len(a.filename) :
             /\ \A i \in 1..j : a.filename[i] \in a.separators
             /\ (j < Len(a.filename)) => (a.filename[j + 1] \notin a.separators)
  IN  SubSeq(a.filename, k + 1, Len(a.filename))

C10_WitnessEmptyPortion ==
  /\ ~mp.res.null /\ ~mp.dir.null
  /\ DirPortion(mp) = <<>>
  /\ mp.filename # <<>>
  /\ mp.res.v = StrippedName(mp)

\* C11 (as claimed): with an absent directory the result is the filename
\* without its leading separators, whatever length is passed.
C11_AsClaimed ==
  (~mp.res.null /\ mp.dir.null) => (mp.res.v = StrippedName(mp))

\* C11: with an absent directory the result is the filename as it was given,
\* its leading separators included, whatever length is passed; the call
\* leaves its arguments as they were.
C11_AbsentDirKeepsFilename ==
  [][(~mp'.res.null /\ mp.res.null /\ mp.dir.null) =>
       /\ mp'.res.v = mp.filename
       /\ mp'.dir = mp.dir
       /\ mp'.dir_len = mp.dir_len
       /\ mp'.filename = mp.filename]_vars

\* C11: no directory, a length that is not zero, and a filename that begins
\* with a separator and is returned whole.
C11_Witness ==
  /\ ~mp.res.null /\ mp.dir.null
  /\ mp.dir_len > 0
  /\ mp.filename # <<>> /\ mp.filename[1] = SYS_PATH_SEPARATOR
  /\ Len(mp.filename) > 1
  /\ mp.res.v = mp.filename

(***************************************************************************)
(* Error translator.                                                       *)
(***************************************************************************)
\* the native error values the translator is given: a contiguous block from
\* zero and the listed values above it
NativeErrors ==
  (0..MaxNativeError) \cup {ERROR_NOT_ENOUGH_QUOTA, ERROR_NO_UNICODE_TRANSLATION}

\* void set_errno_from_last_file_error(void)
set_errno_from_last_file_error ==
  /\ errno' = convert_last_error_to_errno(lastError)
  /\ call' = [op |-> "translate", error_code |-> lastError, before |-> errno]
  /\ UNCHANGED <<opt_flags, lastError, dirVars, files, handles, heapBufs, mp, threads>>

\* A native call leaves any error value behind.
NativeCallEnds ==
  /\ lastError' \in NativeErrors
  /\ call' = NoCall
  /\ UNCHANGED <<opt_flags, errno, dirVars, files, handles, heapBufs, mp, threads>>

InitErr ==
  /\ opt_flags = {}
  /\ lastError = NO_ERROR
  /\ errno = E_NONE
  /\ dirs = [d \in DirIds |-> Null]
  /\ findHandles = [d \in DirIds |-> NoFindHandle]
  /\ hist = [d \in DirIds |-> NewHist]
  /\ files = {}
  /\ handles = {}
  /\ heapBufs = 0
  /\ call = NoCall
  /\ mp = NoPath
  /\ threads = NoThreads

NextErr == set_errno_from_last_file_error \/ NativeCallEnds

SpecErr == InitErr /\ [][NextErr]_vars

(***************************************************************************)
(* Properties of the error translator.                                     *)
(***************************************************************************)
\* the portable error codes; Unknown is never stored as such
UNKNOWN == "Unknown"
PortableErrorCodes ==
  {ENOENT, EACCES, EMFILE, EBADF, ENOMEM, EINVAL, EPIPE, ENOSPC, EEXIST, EAGAIN,
   UNKNOWN}

\* C12 (as claimed): the value the translator stores is a portable error code
\* for every native error value, the no-error value included.
C12_AsClaimed ==
  (call.op = "translate") => (errno \in PortableErrorCodes)

\* C12: the value the translator stores is a portable error code for every
\* native error value but the no-error value, for which it stores 0.
C12_StoredValueIsPortableOrZero ==
  (call.op = "translate") =>
    /\ lastError = call.error_code
    /\ IF lastError = NO_ERROR
       THEN errno = E_NONE
       ELSE errno \in PortableErrorCodes \ {UNKNOWN}

\* C12: the native error was the no-error value and the translator stored 0
\* over an earlier error.
C12_Witness ==
  /\ call.op = "translate"
  /\ lastError = NO_ERROR
  /\ errno = E_NONE
  /\ call.before = EACCES

\* the explicit table as the specification lists it, by family
ListedErrors ==
  [notFound |-> {ERROR_FILE_NOT_FOUND, ERROR_PATH_NOT_FOUND, ERROR_INVALID_DRIVE,
                 ERROR_BAD_NETPATH, ERROR_BAD_PATHNAME, ERROR_FILENAME_EXCED_RANGE},
   tooManyHandles |-> {ERROR_TOO_MANY_OPEN_FILES},
   accessDenied |-> {ERROR_ACCESS_DENIED, ERROR_SHARING_VIOLATION,
                     ERROR_NETWORK_ACCESS_DENIED, ERROR_FAIL_I24,
                     ERROR_SEEK_ON_DEVICE, ERROR_LOCK_VIOLATION,
                     ERROR_DRIVE_LOCKED, ERROR_NOT_LOCKED, ERROR_LOCK_FAILED},
   invalidHandle |-> {ERROR_INVALID_HANDLE},
   outOfMemory |-> {ERROR_NOT_ENOUGH_MEMORY, ERROR_INVALID_BLOCK,
                    ERROR_NOT_ENOUGH_QUOTA},
   invalidParameter |-> {ERROR_INVALID_ACCESS, ERROR_INVALID_DATA,
                         ERROR_INVALID_PARAMETER},
   brokenPipe |-> {ERROR_BROKEN_PIPE, ERROR_NO_DATA},
   diskFull |-> {ERROR_DISK_FULL},
   alreadyExists |-> {ERROR_ALREADY_EXISTS},
   nestingNotAllowed |-> {ERROR_NESTING_NOT_ALLOWED},
   noError |-> {NO_ERROR}]

ListedAs ==
  [notFound |-> ENOENT, tooManyHandles |-> EMFILE, accessDenied |-> EACCES,
   invalidHandle |-> EBADF, outOfMemory |-> ENOMEM, invalidParameter |-> EINVAL,
   brokenPipe |-> EPIPE, diskFull |-> ENOSPC, alreadyExists |-> EEXIST,
   nestingNotAllowed |-> EAGAIN, noError |-> E_NONE]

Listed(e) == \E f \in DOMAIN ListedErrors : e \in ListedErrors[f]
InAccessRange(e) == ERROR_WRITE_PROTECT <= e /\ e <= ERROR_SHARING_BUFFER_EXCEEDED

C13_WitnessListedInRange ==
  /\ call.op = "translate"
  /\ Listed(lastError) /\ InAccessRange(lastError)

(***************************************************************************)
(* Codepage converter: c2w on a narrow string, wchar_to_cstr on its result *)
(* or on a wide string the caller has.                                     *)
(***************************************************************************)
NarrowBytes == {"61", "C3", "A9", "E9", "82", "81"}
NarrowStrings == UNION {[1..k -> NarrowBytes] : k \in 0..MaxStrLen}
WideUnits == {"U0061", "U00E9", "U0398", "U4E2D", "UD800"}
WideInputs == UNION {[1..k -> WideUnits] : k \in 0..MaxWideLen}

\* the codepage arguments of wchar_to_cstr
CodepageArgs == {WIN_DEFAULT_ENCODING, CP_ACP, CP_OEMCP, CP_UTF8}

\* what a caller holds before it calls a converter
ConverterInputs ==
  [op : {"narrow"}, str : NarrowStrings] \cup [op : {"wide"}, wstr : WideInputs]

\* wchar_t* c2w(const char* str, int try_no)
C2W ==
  /\ call.op = "narrow"
  /\ \E try_no \in {0, 1} :
     \E wstr \in {c2w(opt_flags, call.str, try_no)} :
       /\ call' = [op |-> "c2w", str |-> call.str, try_no |-> try_no, ret |-> wstr]
       /\ heapBufs' = IF wstr.null THEN heapBufs ELSE heapBufs + 1
       /\ lastError' = IF wstr.null THEN ERROR_NO_UNICODE_TRANSLATION ELSE lastError
  /\ UNCHANGED <<opt_flags, errno, dirVars, files, handles, mp, threads>>

\* the wide string a caller gives to wchar_to_cstr: the result of c2w or its own
WideOf(c) == IF c.op = "c2w" THEN c.ret.v ELSE c.wstr

\* char* wchar_to_cstr(const wchar_t* wstr, int codepage, int* failed)
W2C ==
  /\ \/ call.op = "c2w" /\ ~call.ret.null
     \/ call.op = "wide"
  /\ \E codepage \in CodepageArgs, wantFailed \in BOOLEAN :
     \E r \in {wchar_to_cstr(opt_flags, WideOf(call), codepage, wantFailed)} :
       /\ call' = [op |-> "w2c", from |-> call, wstr |-> WideOf(call),
                   codepage |-> codepage, wantFailed |-> wantFailed,
                   buf |-> r.buf, failed |-> r.failed]
       /\ heapBufs' = IF r.buf.null THEN heapBufs ELSE heapBufs + 1
  /\ UNCHANGED <<opt_flags, lastError, errno, dirVars, files, handles, mp, threads>>

InitConv ==
  /\ opt_flags \in EncodingModes
  /\ lastError = NO_ERROR
  /\ errno = E_NONE
  /\ dirs = [d \in DirIds |-> Null]
  /\ findHandles = [d \in DirIds |-> NoFindHandle]
  /\ hist = [d \in DirIds |-> NewHist]
  /\ files = {}
  /\ handles = {}
  /\ heapBufs = 0
  /\ call \in ConverterInputs
  /\ mp = NoPath
  /\ threads = NoThreads

NextConv == C2W \/ W2C

SpecConv == InitConv /\ [][NextConv]_vars

(***************************************************************************)
(* Properties of the codepage converter.                                   *)
(***************************************************************************)
\* the last call converted back, with the default codepage and the flag
\* requested, the result of attempt 0 on a narrow string
IsRoundTrip(c) ==
  /\ c.op = "w2c"
  /\ c.from.op = "c2w" /\ c.from.try_no = 0
  /\ c.codepage = WIN_DEFAULT_ENCODING
  /\ c.wantFailed

\* C14: for every encoding mode and every narrow string that is valid in the
\* mode's encoding, c2w(s, 0) followed by wchar_to_cstr(w, -1, &failed) gives
\* s again with the flag 0.
C14_RoundTrip ==
  IsRoundTrip(call) =>
    /\ ~call.buf.null
    /\ call.buf.v = call.from.str
    /\ call.failed = Assigned(0)

\* C14: a string with a two-byte UTF-8 sequence went to one wide unit and
\* came back.
C14_Witness ==
  /\ IsRoundTrip(call)
  /\ OPT_UTF8 \in opt_flags
  /\ Len(call.from.str) = 3
  /\ Len(call.wstr) = 2
  /\ call.buf = Some(call.from.str)

\* a legacy-codepage string went to as many wide units and came back
C14_WitnessLegacy ==
  /\ IsRoundTrip(call)
  /\ opt_flags = {OPT_OEM}
  /\ Len(call.from.str) = 3
  /\ \A i \in 1..3 : call.from.str[i] # "61"
  /\ call.buf = Some(call.from.str)

\* the codepages of an encoding mode as the specification designates them
PrimaryCodepage(flags) ==
  IF OPT_UTF8 \in flags THEN CP_UTF8
  ELSE IF OPT_OEM \in flags THEN CP_OEMCP ELSE CP_ACP
AlternateCodepage(flags) ==
  IF OPT_UTF8 \notin flags THEN CP_UTF8
  ELSE IF OPT_OEM \in flags THEN CP_OEMCP ELSE CP_ACP

\* C17: in every encoding mode attempt 0 of c2w uses the codepage that
\* wchar_to_cstr uses for the sentinel -1, attempt 1 uses another codepage,
\* and exactly one of the two attempts uses CP_UTF8; the results of the calls
\* are the native conversions under these codepages.
C17_CodepageSelection ==
  /\ c2w_codepage(opt_flags, 0) = DefaultCodepage(opt_flags)
  /\ c2w_codepage(opt_flags, 1) # c2w_codepage(opt_flags, 0)
  /\ (c2w_codepage(opt_flags, 0) = CP_UTF8) # (c2w_codepage(opt_flags, 1) = CP_UTF8)
  /\ (call.op = "c2w") =>
       call.ret = MultiByteToWideChar(IF call.try_no = 0
                                      THEN PrimaryCodepage(opt_flags)
                                      ELSE AlternateCodepage(opt_flags), call.str)
  /\ (call.op = "w2c" /\ call.codepage = WIN_DEFAULT_ENCODING) =>
       LET n == WideCharToMultiByte(PrimaryCodepage(opt_flags), call.wstr)
       IN  IF n.null THEN call.buf.null ELSE call.buf = Some(n.v.bytes)

\* C17: with both options set, attempt 1 converted under the OEM codepage a
\* string that attempt 0 does not convert to the same wide string.
C17_Witness ==
  /\ call.op = "c2w"
  /\ call.try_no = 1
  /\ opt_flags = {OPT_UTF8, OPT_OEM}
  /\ ~call.ret.null
  /\ call.ret = MultiByteToWideChar(CP_OEMCP, call.str)
  /\ call.ret # c2w(opt_flags, call.str, 0)
  /\ call.str # <<>>

(***************************************************************************)
(* Properties of the iterator's buffers and handles.                       *)
(***************************************************************************)
\* the record's name converts with a substitution: its buffer is allocated
\* and the entry is skipped
SkippedWithBuffer(flags, rec) ==
  LET conv == wchar_to_cstr(flags, rec.cFileName, WIN_DEFAULT_ENCODING, TRUE)
  IN  ~IsDotOrDotDot(rec.cFileName) /\ ~conv.buf.null /\ conv.failed = Assigned(1)

\* C15: an iterator owns at most one live narrow-name buffer at any time, the
\* one its d_name points to; after a win_readdir that buffer is the name of
\* the entry returned, and none is live after End; no buffer is freed twice;
\* after win_closedir none remains.
C15_BufferLifetime ==
  \A d \in DirIds :
    /\ hist[d].live \in {0, 1}
    /\ hist[d].peak <= 1
    /\ ~hist[d].doubleFree
    /\ (hist[d].live = 1) <=> (~dirs[d].null /\ ~dirs[d].v.dir.d_name.null)
    /\ (hist[d].phase = "closed") => (hist[d].live = 0)
    /\ (call.op = "readdir" /\ call.d = d) =>
         IF call.ret.null
         THEN hist[d].live = 0
         ELSE /\ hist[d].live = 1
              /\ dirs[d].v.dir.d_name = Some(call.ret.v.d_name)

\* C15: an iterator that skipped a name converted with a substitution and
\* returned two entries was closed while it held the second entry's buffer.
C15_Witness ==
  \E d \in DirIds :
    /\ hist[d].phase = "closed"
    /\ call.op = "closedir"
    /\ Len(hist[d].returned) = 2
    /\ hist[d].ends = 0
    /\ hist[d].peak = 1
    /\ \E i \in 1..Len(findHandles[d].listing) :
         SkippedWithBuffer(opt_flags, findHandles[d].listing[i])

(***************************************************************************)
(* The wide-path open of the directory iterator.                           *)
(***************************************************************************)
\* the wide directory paths given to win_wopendir
DirWPaths == { <<>>, <<"U0061">>, <<"U0061", "U005C">> }

\* line 441: whether win_wopendir gives up with EACCES
WopenDenied(hFind, err) ==
  hFind = INVALID_HANDLE_VALUE /\ err = ERROR_ACCESS_DENIED

\* WIN_DIR* win_wopendir(const wchar_t* dir_path).  The object is not zeroed:
\* the fields the call does not set are not read before they are written.
win_wopendir(d) ==
  /\ dirs[d].null
  /\ hist[d].phase = "new"
  /\ \E dir_path \in DirWPaths, separators \in SeparatorSets,
        res \in FindResults, first \in FindRecords :
     \E wpath \in {make_pathw(separators, Some(dir_path), AUTO_LEN, <<"U002A">>)} :
     \E a \in {FindFirstFileW([hFind |-> INVALID_HANDLE_VALUE,
                               findFileData |-> ZeroFindData,
                               lastError |-> lastError, log |-> <<>>,
                               allocs |-> 1, frees |-> 1],
                              d, 0, wpath, res, first)} :
       LET opened == a.hFind # INVALID_HANDLE_VALUE
           denied == WopenDenied(a.hFind, a.lastError)
           obj == [findFileData |-> a.findFileData, hFind |-> a.hFind,
                   dir |-> [d_name |-> Null, d_wname |-> Null, d_isdir |-> FALSE],
                   state |-> InitialState(a.hFind)]
       IN  /\ (~opened => first = AnyRecord)
           /\ lastError' = a.lastError
           /\ errno' = IF denied THEN EACCES ELSE errno
           /\ dirs' = [dirs EXCEPT ![d] = IF denied THEN Null ELSE Some(obj)]
           /\ findHandles' = [findHandles EXCEPT ![d] =
                IF opened
                THEN [status |-> "open", listing |-> <<first>>,
                      ended |-> FALSE, closes |-> 0]
                ELSE NoFindHandle]
           /\ hist' = [hist EXCEPT ![d].phase = IF denied THEN "new" ELSE "open"]
           /\ heapBufs' = heapBufs + a.allocs - a.frees
           /\ call' = [op |-> "wopendir", d |-> d, path |-> dir_path,
                       ret |-> IF denied THEN Null ELSE Some(d),
                       log |-> a.log, errnoAssigned |-> denied]
  /\ UNCHANGED <<opt_flags, files, handles, mp, threads>>

NextDirW ==
  \E d \in DirIds :
    win_opendir(d) \/ win_wopendir(d) \/ win_readdir(d) \/ win_closedir(d)

SpecDirW == InitDir /\ [][NextDirW]_vars

\* C16: a native handle acquired by win_opendir or win_wopendir stays open,
\* also after the listing has ended, until win_closedir releases it, once;
\* win_closedir calls no native release for an iterator without a handle; and
\* after a null return of an open no handle, no iterator object and no
\* temporary buffer of the call remains.
C16_HandleLifetime ==
  \A d \in DirIds :
    /\ findHandles[d].closes \in {0, 1}
    /\ (findHandles[d].closes = 1) <=> (findHandles[d].status = "closed")
    /\ (findHandles[d].closes = 1) => (findHandles[d].listing # <<>>)
    /\ (findHandles[d].status = "closed") => (hist[d].phase = "closed")
    /\ (hist[d].phase = "open") =>
         /\ ~dirs[d].null
         /\ (dirs[d].v.hFind # INVALID_HANDLE_VALUE) <=>
              (findHandles[d].status = "open")
         /\ (dirs[d].v.hFind = INVALID_HANDLE_VALUE) =>
              (findHandles[d].status = "none")
    /\ (hist[d].phase = "closed") =>
         /\ dirs[d].null
         /\ findHandles[d].status \in {"closed", "none"}
    /\ (call.op \in {"opendir", "wopendir"} /\ call.d = d /\ call.ret.null) =>
         /\ dirs[d].null
         /\ findHandles[d].status = "none"
    /\ heapBufs = 0

\* C16: an iterator reached the end of its listing, still held its handle
\* and released it in win_closedir.
C16_Witness ==
  \E d \in DirIds :
    /\ call.op = "closedir"
    /\ hist[d].phase = "closed"
    /\ hist[d].ends >= 1
    /\ findHandles[d].ended
    /\ findHandles[d].closes = 1
    /\ Len(hist[d].returned) >= 1

\* win_wopendir returned null after an access-denied enumeration
C16_WitnessDenied ==
  /\ call.op = "wopendir"
  /\ call.ret.null
  /\ errno = EACCES

(***************************************************************************)
(* wchar_to_cstr called by a caller that has a wide string, next to the    *)
(* directory iterator, whose win_readdir calls it on every name.           *)
(***************************************************************************)
\* A caller that has called nothing yet has a wide string to convert.
CallerHasWide ==
  /\ call = NoCall
  /\ \E wstr \in WideInputs : call' = [op |-> "wide", wstr |-> wstr]
  /\ UNCHANGED <<opt_flags, lastError, errno, dirVars, files, handles, heapBufs, mp, threads>>

NextFlag == NextDir \/ CallerHasWide \/ W2C

SpecFlag == InitDir /\ [][NextFlag]_vars

\* a code unit of the wide string has no byte sequence in the codepage
Substituted(codepage, wstr) ==
  \E i \in 1..Len(wstr) : \A e \in CodepageTable(codepage) : e.w # wstr[i]

\* C18: wchar_to_cstr with the flag requested assigns it on every return
\* path: it returns NULL with the flag 1 exactly when the size computation
\* returns zero; on success under a legacy codepage the flag tells whether the
\* default character was substituted; on success under CP_UTF8 the flag is 0.
\* win_readdir never reads an unassigned flag.
C18_FlagAlwaysAssigned ==
  /\ (call.op = "w2c" /\ call.wantFailed) =>
       LET cp == IF call.codepage = WIN_DEFAULT_ENCODING
                 THEN PrimaryCodepage(opt_flags) ELSE call.codepage
           sizeZero == WideCharToMultiByte(cp, call.wstr).null
       IN  /\ call.failed.assigned
           /\ call.buf.null <=> sizeZero
           /\ sizeZero => (call.failed = Assigned(1))
           /\ (~sizeZero /\ cp # CP_UTF8) =>
                (call.failed = Assigned(IF Substituted(cp, call.wstr) THEN 1 ELSE 0))
           /\ (~sizeZero /\ cp = CP_UTF8) => (call.failed = Assigned(0))
  /\ \A d \in DirIds : ~hist[d].readUnassigned

\* C18: under a legacy codepage a wide string was converted with a
\* substitution, and the flag is 1 with a buffer returned.
C18_Witness ==
  /\ call.op = "w2c"
  /\ call.wantFailed
  /\ call.codepage = CP_OEMCP
  /\ ~call.buf.null
  /\ call.failed = Assigned(1)
  /\ Len(call.wstr) = 2

\* win_readdir skipped a name converted with a substitution
C18_WitnessReaddir ==
  \E d \in DirIds :
    /\ call.op = "readdir"
    /\ \E i \in 1..Len(findHandles[d].listing) :
         SkippedWithBuffer(opt_flags, findHandles[d].listing[i])

(***************************************************************************)
(* errno after win_opendir                                                 *)
(***************************************************************************)
\* the last error left by the last FindFirstFileW call of the win_opendir
\* that has just returned: its error code when it failed; when it succeeded,
\* NO_ERROR if it cleared the last error and otherwise what was there before
\* it (the error of the first attempt, of the failed conversion of the first
\* attempt, or the last error before the call of win_opendir)
LeftByLastEnumeration ==
  LET log == call'.log
      last == log[Len(log)]
      before == IF Len(log) = 2 THEN log[1].res.err
                ELSE IF last.try_no = 1 THEN ERROR_NO_UNICODE_TRANSLATION
                ELSE lastError
  IN  IF ~last.res.ok THEN last.res.err
      ELSE IF last.res.reset THEN NO_ERROR ELSE before

\* the win_opendir that has just returned ended its attempts with a failed
\* conversion of the path: it made no FindFirstFileW call, or only the one of
\* attempt 0, which failed with an error that is retried
EndedWithFailedConversion ==
  LET log == call'.log
  IN  \/ log = <<>>
      \/ /\ Len(log) = 1
         /\ log[1].try_no = 0
         /\ ~log[1].res.ok
         /\ log[1].res.err # ERROR_ACCESS_DENIED

ReturnedFromOpendir == call'.op = "opendir"

\* C19 as claimed: after a non-null return errno is the translation of the
\* error left by the last FindFirstFileW call, after a null return it is EACCES
C19_AsClaimed ==
  [][ReturnedFromOpendir =>
       IF call'.ret.null THEN errno' = EACCES
       ELSE (call'.log # <<>>) =>
              errno' = convert_last_error_to_errno(LeftByLastEnumeration)]_vars

\* C19: win_opendir sets errno regardless of outcome.  After a non-null return
\* errno is the translation of the last error left by the last native call of
\* that win_opendir: its last FindFirstFileW call, succeeded or failed, or the
\* failed conversion of the path when no FindFirstFileW call followed it.
\* After a null return errno is EACCES, or ENOMEM when a malloc failed.
C19_ErrnoAfterOpendir ==
  [][ReturnedFromOpendir =>
       IF call'.ret.null
       THEN errno' = IF call'.log = <<>> THEN ENOMEM ELSE EACCES
       ELSE errno' = convert_last_error_to_errno(
                       IF EndedWithFailedConversion
                       THEN ERROR_NO_UNICODE_TRANSLATION
                       ELSE LeftByLastEnumeration)]_vars

\* C19: win_opendir returned an iterator with a handle from its second
\* attempt, which left the error of the first attempt in place, and errno is
\* its translation
C19_Witness ==
  /\ call.op = "opendir"
  /\ ~call.ret.null
  /\ Len(call.log) = 2
  /\ call.log[1].res = [ok |-> FALSE, err |-> ERROR_FILE_NOT_FOUND]
  /\ call.log[2].res = [ok |-> TRUE, reset |-> FALSE]
  /\ errno = ENOENT

\* the path converted under no codepage after a failed first attempt: errno
\* is the translation of the conversion's error
C19_WitnessConversion ==
  /\ call.op = "opendir"
  /\ ~call.ret.null
  /\ Len(call.log) = 1
  /\ call.log[1].res = [ok |-> FALSE, err |-> ERROR_FILE_NOT_FOUND]
  /\ errno = EINVAL

\* a malloc failed: NULL with ENOMEM
C19_WitnessNoMemory ==
  /\ call.op = "opendir"
  /\ call.ret.null
  /\ errno = ENOMEM

(***************************************************************************)
(* Two threads, each advancing and closing an iterator of its own.         *)
(* win_readdir is taken one step at a time, a step ending after each       *)
(* native or library call, so that the steps of the two threads            *)
(* interleave.  The iterator's fields are written in place, as the code    *)
(* writes them; filename and failed are the locals of the call.            *)
(***************************************************************************)
MaxTwoEntries == 2

Threads == {1, 2}

\* a mutant of IterOf: both threads were given the same iterator
IterOf_Shared(t) == 1

\* line 473: the WIN_DIR* d a thread passes to win_readdir and win_closedir
IterOf(t) == t

\* the records the native listings of the two directories deliver
TwoRecords ==
  { FindData(<<"U002E", "U002E">>, TRUE),
    FindData(<<"U00E9">>, FALSE),
    FindData(<<"U4E2D">>, TRUE) }

\* a thread outside win_readdir; start, fetched and ret keep what its last
\* win_readdir found at entry, was delivered by FindNextFileW, and returned
Idle == [pc |-> "idle", filename |-> Null, failed |-> Unassigned,
         start |-> Null, fetched |-> <<>>, ret |-> Null]

\* the iterators win_opendir leaves: a handle with its first record buffered
\* and state 0, or no handle and state -1
OpenedIterator(d, first) ==
  LET hFind == IF first.null THEN INVALID_HANDLE_VALUE ELSE FindHandle(d)
  IN  [findFileData |-> IF first.null THEN ZeroFindData ELSE first.v,
       hFind |-> hFind,
       dir |-> [d_name |-> Null, d_wname |-> Null, d_isdir |-> FALSE],
       state |-> InitialState(hFind)]

HandleValid(d) ==
  dirs[d].v.hFind # INVALID_HANDLE_VALUE /\ findHandles[d].status = "open"

\* the return of win_readdir, as the whole call records it
ReaddirReturns(d, ret) ==
  /\ call' = [op |-> "readdir", d |-> d, path |-> <<>>, ret |-> ret,
              log |-> <<>>, errnoAssigned |-> FALSE]

\* lines 478-482: the test of the terminal state, the release of the name
\* buffer of the previous entry
rd_enter(t) ==
  /\ threads[t].pc = "idle"
  /\ \E d \in {IterOf(t)} :
     /\ ~dirs[d].null
     /\ LET obj == dirs[d].v
            h == findHandles[d]
            ended == ReaddirEnded(obj.state)
            freed == ~obj.dir.d_name.null
            start == [state |-> obj.state, findFileData |-> obj.findFileData,
                      d_name |-> IF ended THEN obj.dir.d_name ELSE Null,
                      d_wname |-> obj.dir.d_wname, d_isdir |-> obj.dir.d_isdir,
                      listing |-> h.listing, ended |-> h.ended,
                      nFindNext |-> hist[d].nFindNext,
                      examined |-> hist[d].examined,
                      hValid |-> HandleValid(d)]
        IN
        IF ended
        THEN /\ threads' = [threads EXCEPT ![t] =
                  [Idle EXCEPT !.start = Some(start)]]
             /\ hist' = [hist EXCEPT ![d].ends =
                           IF @ < MaxEnds THEN @ + 1 ELSE @]
             /\ ReaddirReturns(d, Null)
             /\ UNCHANGED dirs
        ELSE /\ threads' = [threads EXCEPT ![t] =
                  [Idle EXCEPT !.pc = "loop", !.start = Some(start)]]
             /\ dirs' = [dirs EXCEPT ![d].v.dir.d_name = Null]
             /\ hist' = [hist EXCEPT
                  ![d].live = IF freed THEN @ - 1 ELSE @,
                  ![d].doubleFree = @ \/ (freed /\ hist[d].live = 0)]
             /\ UNCHANGED call
  /\ UNCHANGED <<opt_flags, lastError, errno, findHandles, files, handles,
                 heapBufs, mp>>

\* lines 485-492: FindNextFileW when the buffered record was consumed, then
\* d->state++
rd_fetch(t) ==
  /\ threads[t].pc = "loop"
  /\ \E d \in {IterOf(t)} :
     /\ ~dirs[d].null
     /\ LET obj == dirs[d].v
            h == findHandles[d]
            hValid == HandleValid(d)
        IN
        IF ~NeedFindNext(obj.state)
        THEN /\ dirs' = [dirs EXCEPT ![d].v.state = @ + 1]
             /\ hist' = [hist EXCEPT ![d].examined = @ + 1]
             /\ threads' = [threads EXCEPT ![t].pc = "examine"]
             /\ UNCHANGED <<findHandles, lastError, call>>
        ELSE
        \/ \* FindNextFileW delivers a record
           /\ hValid /\ ~h.ended /\ Len(h.listing) < MaxTwoEntries
           /\ \E rec \in TwoRecords :
                /\ findHandles' = [findHandles EXCEPT ![d].listing = Append(@, rec)]
                /\ dirs' = [dirs EXCEPT ![d].v.findFileData = rec,
                                        ![d].v.state = @ + 1]
                /\ threads' = [threads EXCEPT ![t].pc = "examine",
                                              ![t].fetched = Append(@, rec)]
           /\ hist' = [hist EXCEPT ![d].nFindNext = @ + 1,
                                   ![d].examined = @ + 1]
           /\ UNCHANGED <<lastError, call>>
        \/ \* FindNextFileW returns FALSE: the directory listing has ended
           /\ dirs' = [dirs EXCEPT ![d].v.state = -1]
           /\ findHandles' = [findHandles EXCEPT ![d].ended = @ \/ hValid]
           /\ hist' = [hist EXCEPT ![d].nFindNext = @ + 1,
                                   ![d].ends = IF @ < MaxEnds THEN @ + 1 ELSE @]
           /\ lastError' = IF hValid THEN ERROR_NO_MORE_FILES
                           ELSE ERROR_INVALID_HANDLE
           /\ threads' = [threads EXCEPT ![t].pc = "idle", ![t].ret = Null]
           /\ ReaddirReturns(d, Null)
  /\ UNCHANGED <<opt_flags, errno, files, handles, heapBufs, mp>>

\* lines 494-502: the test for "." and "..", the conversion of the name
rd_examine(t) ==
  /\ threads[t].pc = "examine"
  /\ \E d \in {IterOf(t)} :
     /\ ~dirs[d].null
     /\ LET name == dirs[d].v.findFileData.cFileName
        IN
        IF IsDotOrDotDot(name)
        THEN /\ threads' = [threads EXCEPT ![t].pc = "loop"]
             /\ UNCHANGED <<dirs, hist, lastError>>
        ELSE \E conv \in {wchar_to_cstr(opt_flags, name, WIN_DEFAULT_ENCODING, TRUE)} :
             /\ dirs' = [dirs EXCEPT ![d].v.dir.d_name = conv.buf]
             /\ threads' = [threads EXCEPT ![t].pc = "decide",
                                           ![t].filename = conv.buf,
                                           ![t].failed = conv.failed]
             /\ hist' = [hist EXCEPT
                  ![d].live = IF conv.buf.null THEN @ ELSE @ + 1,
                  ![d].peak = IF ~conv.buf.null /\ hist[d].live + 1 > @
                              THEN hist[d].live + 1 ELSE @,
                  ![d].readUnassigned =
                     @ \/ (~conv.buf.null /\ ~conv.failed.assigned)]
             /\ lastError' = IF conv.buf.null THEN ERROR_NO_UNICODE_TRANSLATION
                             ELSE lastError
  /\ UNCHANGED <<opt_flags, errno, findHandles, files, handles, heapBufs, call, mp>>

\* lines 504-514: the entry is filled in and returned, or the name is
\* skipped and its buffer freed
rd_decide(t) ==
  /\ threads[t].pc = "decide"
  /\ \E d \in {IterOf(t)} :
     /\ ~dirs[d].null
     /\ LET obj == dirs[d].v
            filename == threads[t].filename
        IN
        IF EntryAccepted(filename, threads[t].failed)
        THEN \E ret \in {Some([d_name |-> filename.v,
                               d_wname |-> obj.findFileData.cFileName,
                               d_isdir |-> obj.findFileData.isDirectory])} :
             /\ dirs' = [dirs EXCEPT
                  ![d].v.dir.d_wname = Some(obj.findFileData.cFileName),
                  ![d].v.dir.d_isdir = obj.findFileData.isDirectory]
             /\ hist' = [hist EXCEPT ![d].returned = Append(@, ret.v)]
             /\ threads' = [threads EXCEPT ![t].pc = "idle", ![t].ret = ret]
             /\ ReaddirReturns(d, ret)
        ELSE /\ IF SkipFrees(filename)
                THEN /\ dirs' = [dirs EXCEPT ![d].v.dir.d_name = Null]
                     /\ hist' = [hist EXCEPT ![d].live = @ - 1]
                ELSE UNCHANGED <<dirs, hist>>
             /\ threads' = [threads EXCEPT ![t].pc = "loop"]
             /\ UNCHANGED call
  /\ UNCHANGED <<opt_flags, lastError, errno, findHandles, files, handles,
                 heapBufs, mp>>

\* win_closedir called by a thread that is not inside win_readdir
cl(t) ==
  /\ threads[t].pc = "idle"
  /\ win_closedir(IterOf(t))

InitTwo ==
  /\ opt_flags \in EncodingModes
  /\ lastError = NO_ERROR
  /\ errno = E_NONE
  /\ \E first \in [Threads -> {Null} \cup {Some(rec) : rec \in TwoRecords}] :
       /\ dirs = [d \in Threads |-> Some(OpenedIterator(d, first[d]))]
       /\ findHandles = [d \in Threads |->
            IF first[d].null THEN NoFindHandle
            ELSE [status |-> "open", listing |-> <<first[d].v>>,
                  ended |-> FALSE, closes |-> 0]]
  /\ hist = [d \in Threads |-> [NewHist EXCEPT !.phase = "open"]]
  /\ files = {}
  /\ handles = {}
  /\ heapBufs = 0
  /\ call = NoCall
  /\ mp = NoPath
  /\ threads = [t \in Threads |-> Idle]

NextTwo ==
  \E t \in Threads :
    rd_enter(t) \/ rd_fetch(t) \/ rd_examine(t) \/ rd_decide(t) \/ cl(t)

SpecTwo == InitTwo /\ [][NextTwo]_vars

\* what the win_readdir a thread has just finished returns and leaves in the
\* iterator when it runs alone, from the iterator as it was at entry and the
\* records FindNextFileW delivered to it
AdvancedAlone(t) ==
  LET s == threads[t].start.v
      r == [state |-> s.state, findFileData |-> s.findFileData,
            d_name |-> s.d_name, d_wname |-> s.d_wname, d_isdir |-> s.d_isdir,
            listing |-> s.listing, future |-> threads[t].fetched,
            ended |-> s.ended, nFindNext |-> s.nFindNext,
            examined |-> s.examined, live |-> 0, peak |-> 0,
            readUnassigned |-> FALSE, lastError |-> NO_ERROR, ret |-> Null]
  IN  IF ReaddirEnded(s.state) THEN r ELSE ReaddirLoop(opt_flags, s.hValid, r)

\* the iterator of thread t, after the thread's last win_readdir and whatever
\* the other thread did since, is as the call alone leaves it
SameAsAlone(t) ==
  (threads[t].pc = "idle" /\ ~threads[t].start.null /\ ~dirs[t].null) =>
    \E alone \in {AdvancedAlone(t)} :
      /\ threads[t].ret = alone.ret
      /\ dirs[t].v.state = alone.state
      /\ dirs[t].v.findFileData = alone.findFileData
      /\ dirs[t].v.dir = [d_name |-> alone.d_name, d_wname |-> alone.d_wname,
                          d_isdir |-> alone.d_isdir]
      /\ findHandles[t].listing = alone.listing
      /\ findHandles[t].ended = alone.ended
      /\ hist[t].nFindNext = alone.nFindNext
      /\ hist[t].examined = alone.examined

\* a step changes the iterator e (its fields, its native handle, the entries
\* it returned) only when it is a step of the thread that owns e
OnlyOwnerChanges(e) ==
  (\/ dirs'[e] # dirs[e]
   \/ findHandles'[e] # findHandles[e]
   \/ hist'[e].returned # hist[e].returned)
  => \/ threads'[e] # threads[e]
     \/ (call'.op = "closedir" /\ call'.d = e /\ dirs'[e].null
         /\ threads[e].pc = "idle")

\* C20: two iterators advanced by two threads in any interleaving of the
\* steps of win_readdir: every win_readdir returns the entry, or the end, and
\* leaves the iterator as it does when it runs alone on the same listing, and
\* a step of win_readdir or win_closedir on one iterator changes nothing of
\* the other iterator: state, current entry, name buffer, native handle.
C20_Independence ==
  /\ [](\A t \in Threads : SameAsAlone(t))
  /\ [][/\ \A e \in Threads : OnlyOwnerChanges(e)
        /\ \A t, e \in Threads :
             (threads'[t] # threads[t] /\ threads'[e] # threads[e]) => t = e]_vars

\* C20: both threads are inside win_readdir at once, each having returned
\* an entry of its own iterator before
C20_Witness ==
  /\ threads[1].pc = "decide"
  /\ threads[2].pc = "examine"
  /\ Len(hist[1].returned) = 1
  /\ Len(hist[2].returned) = 1
  /\ hist[1].returned # hist[2].returned

\* thread 1 returned its second entry after thread 2 closed its iterator
\* while thread 1 was inside the call
C20_WitnessClose ==
  /\ threads[1].pc = "idle"
  /\ ~threads[1].ret.null
  /\ Len(hist[1].returned) = 2
  /\ dirs[2].null
  /\ call.op = "readdir"
  /\ Len(hist[2].returned) = 1

====
